---- MODULE Spec2Model ----
(***************************************************************************)
(* libforensic1394: bus and device lifecycle (src/src/common.c), the      *)
(* request engine of the two platform backends (src/src/linux/juju.c,      *)
(* src/src/macosx/iokit.c) and configuration ROM parsing (csr.c).          *)
(*                                                                         *)
(* The C functions are translated as operators over a "world" record W     *)
(* (the heap the function can reach plus the trace of the calls it makes); *)
(* an action applies one public function as a whole and stores the         *)
(* resulting world.                                                        *)
(***************************************************************************)
EXTENDS Integers, Sequences, FiniteSets, TLC

VARIABLES
    backend,    \* which platform backend the library was built with
    bus,        \* bus handle -> struct _forensic1394_bus
    devs,       \* device id -> struct _forensic1394_dev (and its history)
    nextdev,    \* next device id malloc hands out
    trace,      \* the calls made by the last public operation, in order
    lastOp,     \* the last public operation, its arguments and its result
    eng,        \* request engine: the batch call in progress on the device
    krn,        \* request engine: the platform side (wire, event channel)
    obs,        \* request engine: what the caller has observed
    csr,        \* CSR parsing: the device being built and its ROM
    res         \* result strings: the code asked about and the answer

lifeVars == <<bus, devs, nextdev, trace, lastOp>>
reqVars  == <<eng, krn, obs>>
romVars  == <<csr, res>>
vars     == <<backend, bus, devs, nextdev, trace, lastOp, eng, krn, obs, csr, res>>

----------------------------------------------------------------------------
(* Bounds of the model *)

MaxDevs  == 3      \* devices allocated by discovery over one run
MaxNodes == 2      \* FireWire device nodes seen by one discovery
MaxOpens == 2      \* successful platform opens of one device
MaxSbp2Devs == 1   \* devices allocated over one run that also enables SBP-2
MaxGeneration == 1 \* the bus generations a discovery can read are 0 .. MaxGeneration
MaxScanFds == 3    \* device-node descriptors left open by the scans of one run

(* Program constants *)

FORENSIC1394_RESULT_SUCCESS     == 0
FORENSIC1394_RESULT_OTHER_ERROR == -1
FORENSIC1394_RESULT_BUS_RESET   == -2
FORENSIC1394_RESULT_NO_PERM     == -3
FORENSIC1394_RESULT_BUSY        == -4
FORENSIC1394_RESULT_IO_ERROR    == -5
FORENSIC1394_RESULT_IO_SIZE     == -6
(* forensic1394.h names no IO_TIMEOUT; the backends use it and result_str  *)
(* (common.c) has "I/O timeout" at index 7, the value the enum would give *)
FORENSIC1394_RESULT_IO_TIMEOUT  == -7

NULL == "NULL"

Backends  == {"juju", "iokit"}
Buses     == {"busA"}
DevIds    == 1 .. MaxDevs
Callbacks == {"cbA", "cbB"}

(* IOReturn values the IOKit calls hand back *)
IOReturns == {"kIOReturnSuccess", "kIOReturnBusy", "kIOReturnTimeout",
              "kIOFireWireBusReset", "kIOReturnError"}

----------------------------------------------------------------------------
(* Trace events *)

Ev(e, b, d) ==
    [e |-> e, bus |-> b, dev |-> d, cb |-> NULL, is_open |-> FALSE, live |-> TRUE]

Emit(W, ev) == [W EXCEPT !.trace = Append(@, ev)]

(* Positions of an event kind for a device in a trace *)
Pos(tr, e, d) == {i \in 1 .. Len(tr) : tr[i].e = e /\ tr[i].dev = d}
PosE(tr, e)   == {i \in 1 .. Len(tr) : tr[i].e = e}

----------------------------------------------------------------------------
(* struct _forensic1394_dev, with the history the claims speak about        *)

NoDev ==
    [state    |-> "unused",   \* unused | live | freed
     bus      |-> NULL,
     is_open  |-> FALSE,
     handle   |-> FALSE,      \* the platform handle (fd / opened interface) is valid
     pdev     |-> FALSE,      \* the platform structure is allocated
     opens    |-> 0,          \* successful platform opens so far
     closes   |-> 0,          \* platform closes so far
     generation |-> 0,        \* bus generation read at discovery
     node_id  |-> 0,          \* node id read at discovery
     user_data |-> NULL,
     found    |-> <<0, 0, NULL>>,  \* generation, node id and bus as discovery set them
     cb_reg   |-> NULL,       \* callback of the enumeration that returned it
     cb_calls |-> <<>>]       \* callback invocations made for it

(* forensic1394_alloc on each bus handle *)
forensic1394_alloc ==
    [sbp2_enabled |-> FALSE,
     dev          |-> NULL,
     dev_link     |-> <<>>,
     ndev         |-> 0,
     ondestroy    |-> NULL,
     pbus         |-> TRUE,    \* platform_bus allocated and not yet freed
     sbp2_handle  |-> FALSE,   \* pbus holds sbp2_fd / localDev and localUnitDir
     published    |-> 0,       \* times the SBP-2 unit directory was published
     add_desc     |-> [data |-> <<>>, length |-> 0, key |-> 0],
                               \* Linux: the descriptor handed to the kernel
     unit_dir     |-> <<>>,    \* IOKit: entries added to the local unit directory
     scan_fds     |-> 0,       \* Linux: descriptors of /dev/fw* nodes that a scan
                               \* opened and that are still open, sbp2_fd included
     revoked      |-> 0,       \* times a publication was revoked
     alive        |-> TRUE]

convert_ioreturn_timeout_lost(i) ==
    CASE i = "kIOReturnSuccess"    -> FORENSIC1394_RESULT_SUCCESS
      [] i = "kIOReturnBusy"       -> FORENSIC1394_RESULT_BUSY
      [] i = "kIOFireWireBusReset" -> FORENSIC1394_RESULT_BUS_RESET
      [] OTHER                     -> FORENSIC1394_RESULT_IO_ERROR

convert_ioreturn(i) ==
    CASE i = "kIOReturnSuccess"    -> FORENSIC1394_RESULT_SUCCESS
      [] i = "kIOReturnBusy"       -> FORENSIC1394_RESULT_BUSY
      [] i = "kIOReturnTimeout"    -> FORENSIC1394_RESULT_IO_TIMEOUT
      [] i = "kIOFireWireBusReset" -> FORENSIC1394_RESULT_BUS_RESET
      [] OTHER                     -> FORENSIC1394_RESULT_IO_ERROR

----------------------------------------------------------------------------
(* Platform open and close.  o is what the operating system answers: for   *)
(* juju the result of open(2) ("fd" or "-1"), for IOKit the IOReturn of     *)
(* the interface's Open.                                                   *)

PlatformOpenAnswers(be) ==
    IF be = "juju" THEN {"fd", "-1"} ELSE IOReturns

platform_open_result(be, o) ==
    IF be = "juju"
    THEN IF o = "-1" THEN FORENSIC1394_RESULT_IO_ERROR
                     ELSE FORENSIC1394_RESULT_SUCCESS
    ELSE convert_ioreturn(o)

platform_open_device(W, be, d, o) ==
    LET ret == platform_open_result(be, o)
        W1  == Emit(W, Ev("platform_open_device", W.devs[d].bus, d))
    IN  [w   |-> IF ret = FORENSIC1394_RESULT_SUCCESS
                 THEN [W1 EXCEPT !.devs[d].handle = TRUE,
                                 !.devs[d].opens  = @ + 1]
                 ELSE W1,
         ret |-> ret]

platform_close_device(W, d) ==
    [Emit(W, Ev("platform_close_device", W.devs[d].bus, d))
        EXCEPT !.devs[d].handle = FALSE,
               !.devs[d].closes = @ + 1]

forensic1394_is_device_open(W, d) == W.devs[d].is_open

open_marks_always(W, be, d, o) ==
    IF forensic1394_is_device_open(W, d)
    THEN [w |-> W, ret |-> FORENSIC1394_RESULT_SUCCESS]
    ELSE LET r == platform_open_device(W, be, d, o)
         IN  [w |-> [r.w EXCEPT !.devs[d].is_open = TRUE], ret |-> r.ret]

open_always_delegates(W, be, d, o) ==
    LET r == platform_open_device(W, be, d, o)
    IN  [w   |-> IF r.ret = FORENSIC1394_RESULT_SUCCESS
                 THEN [r.w EXCEPT !.devs[d].is_open = TRUE]
                 ELSE r.w,
         ret |-> r.ret]

forensic1394_open_device(W, be, d, o) ==
    IF forensic1394_is_device_open(W, d)
    THEN [w |-> W, ret |-> FORENSIC1394_RESULT_SUCCESS]
    ELSE LET r == platform_open_device(W, be, d, o)
         IN  [w   |-> IF r.ret = FORENSIC1394_RESULT_SUCCESS
                      THEN [r.w EXCEPT !.devs[d].is_open = TRUE]
                      ELSE r.w,
              ret |-> r.ret]

forensic1394_close_device(W, d) ==
    IF ~forensic1394_is_device_open(W, d)
    THEN W
    ELSE [platform_close_device(W, d) EXCEPT !.devs[d].is_open = FALSE]

forensic1394_set_device_user_data(W, d, u) ==
    [W EXCEPT !.devs[d].user_data = u]

----------------------------------------------------------------------------
(* Destruction of a device list *)

call_ondestroy(W, b, d) ==
    LET cb == W.bus[b].ondestroy
        ev == [Ev("ondestroy", b, d) EXCEPT
                  !.cb      = cb,
                  !.is_open = W.devs[d].is_open,
                  !.live    = (W.devs[d].state = "live" /\ W.devs[d].pdev)]
    IN  [Emit(W, ev) EXCEPT
            !.devs[d].cb_calls = Append(@, [cb |-> cb, bus |-> b])]

platform_device_destroy(W, d) ==
    [Emit(W, Ev("platform_device_destroy", W.devs[d].bus, d))
        EXCEPT !.devs[d].pdev = FALSE]

free_dev(W, d) ==
    [Emit(W, Ev("free", W.devs[d].bus, d)) EXCEPT !.devs[d].state = "freed"]

destroy_skips_close(W, b, cdev) ==
    LET W2 == IF W.bus[b].ondestroy # NULL THEN call_ondestroy(W, b, cdev) ELSE W
    IN  free_dev(platform_device_destroy(W2, cdev), cdev)

destroy_callback_first(W, b, cdev) ==
    LET W1 == IF W.bus[b].ondestroy # NULL THEN call_ondestroy(W, b, cdev) ELSE W
        W2 == IF forensic1394_is_device_open(W1, cdev)
              THEN forensic1394_close_device(W1, cdev) ELSE W1
    IN  free_dev(platform_device_destroy(W2, cdev), cdev)

destroy_callback_dropped(W, b, cdev) ==
    LET W1 == IF forensic1394_is_device_open(W, cdev)
              THEN forensic1394_close_device(W, cdev) ELSE W
    IN  free_dev(platform_device_destroy(W1, cdev), cdev)

(* One iteration of the loop of forensic1394_destroy_all_devices *)
destroy_one_device(W, b, cdev) ==
    LET W1 == IF forensic1394_is_device_open(W, cdev)
              THEN forensic1394_close_device(W, cdev) ELSE W
        W2 == IF W1.bus[b].ondestroy # NULL THEN call_ondestroy(W1, b, cdev) ELSE W1
    IN  free_dev(platform_device_destroy(W2, cdev), cdev)

RECURSIVE destroy_loop(_, _, _)
destroy_loop(W, b, link) ==
    IF link = <<>> THEN W
    ELSE destroy_loop(destroy_one_device(W, b, Head(link)), b, Tail(link))

forensic1394_destroy_all_devices(W, b) ==
    [destroy_loop(W, b, W.bus[b].dev_link) EXCEPT
        !.bus[b].dev      = NULL,
        !.bus[b].dev_link = <<>>,
        !.bus[b].ndev     = 0]

----------------------------------------------------------------------------
(* Discovery.  nodes is what the platform yields for each FireWire node.  *)
(* IOKit: "ok", or the step that fails for it; match is the IOReturn of    *)
(* IOServiceGetMatchingServices.  Linux: for each /dev/fw* path, open      *)
(* failing with EACCES, or the opened node being a foreign one or not      *)
(* ("local": the local node; a failed GET_INFO leaves both ids 0 and reads *)
(* as local; an open failing for another reason is skipped the same way).  *)

(* open(devpath, O_RDWR) returning a descriptor, and close(fd) *)
fd_open(R)  == [R EXCEPT !.fds = @ + 1]
fd_close(R) == [R EXCEPT !.fds = @ - 1]

NodeAnswers(be) == IF be = "juju" THEN {"foreign", "local", "EACCES"}
                                  ELSE {"ok", "noplugin", "notinited"}

RECURSIVE SeqsUpTo(_, _)
SeqsUpTo(S, n) ==
    IF n = 0 THEN {<<>>}
    ELSE LET shorter == SeqsUpTo(S, n - 1)
         IN  shorter \cup {Append(s, x) : s \in {t \in shorter : Len(t) = n - 1}, x \in S}

DiscoveryInputs(be) == SeqsUpTo(NodeAnswers(be), MaxNodes)

CountOk(nodes) == Cardinality({i \in 1 .. Len(nodes) : nodes[i] \in {"ok", "foreign"}})

new_device_keeps_heap(b) ==
    [NoDev EXCEPT !.state = "live", !.bus = b, !.is_open = TRUE, !.pdev = TRUE]

(* The forensic1394_dev a backend allocates for a discovered node: its bus *)
(* is the enumerating bus and it is not open (calloc on Linux, the         *)
(* assignment is_open = 0 on Mac OS X)                                     *)
new_device(b) ==
    [NoDev EXCEPT !.state = "live", !.bus = b, !.is_open = FALSE, !.pdev = TRUE]

discover_node_appends(R, b, answer) ==
    IF answer = "ok"
    THEN LET d  == R.w.next
             W1 == Emit(R.w, Ev("new_device", b, d))
         IN  [R EXCEPT !.w = [W1 EXCEPT !.devs[d]         = [new_device(b) EXCEPT
                                                                !.generation = R.generation,
                                                                !.node_id    = R.w.bus[b].ndev + 1,
                                                                !.found      = <<R.generation, R.w.bus[b].ndev + 1, b>>],
                                        !.next            = @ + 1,
                                        !.bus[b].dev_link = @ \o <<d>>,
                                        !.bus[b].ndev     = @ + 1]]
    ELSE [R EXCEPT !.ret = FORENSIC1394_RESULT_OTHER_ERROR]

(* One iteration of the while loop of platform_update_device_list (IOKit) *)
discover_node(R, b, answer) ==
    IF answer = "ok"
    THEN LET d  == R.w.next
             W1 == Emit(R.w, Ev("new_device", b, d))
         IN  [R EXCEPT !.w = [W1 EXCEPT !.devs[d]         = [new_device(b) EXCEPT
                                                                !.generation = R.generation,
                                                                !.node_id    = R.w.bus[b].ndev + 1,
                                                                !.found      = <<R.generation, R.w.bus[b].ndev + 1, b>>],
                                        !.next            = @ + 1,
                                        !.bus[b].dev_link = <<d>> \o @,
                                        !.bus[b].ndev     = @ + 1]]
    ELSE [R EXCEPT !.ret = FORENSIC1394_RESULT_OTHER_ERROR]

(* One iteration of the for loop of platform_update_device_list (Linux);  *)
(* juju.c stores the device at the end of the bus's list                   *)
juju_discover_node(R, b, answer) ==
    CASE answer = "EACCES"  -> [R EXCEPT !.perm_skipped = @ + 1]
      [] answer = "foreign" ->
            LET d  == R.w.next
                W1 == Emit(R.w, Ev("new_device", b, d))
            IN  fd_close(
                [fd_open(R) EXCEPT !.w = [W1 EXCEPT !.devs[d]         = [new_device(b) EXCEPT
                                                                !.generation = R.generation,
                                                                !.node_id    = R.w.bus[b].ndev + 1,
                                                                !.found      = <<R.generation, R.w.bus[b].ndev + 1, b>>],
                                           !.next            = @ + 1,
                                           !.bus[b].dev_link = @ \o <<d>>,
                                           !.bus[b].ndev     = @ + 1]])
      [] OTHER -> fd_close(fd_open(R))

RECURSIVE discover_loop(_, _, _, _)
discover_loop(R, be, b, nodes) ==
    IF nodes = <<>> THEN R
    ELSE discover_loop(IF be = "juju" THEN juju_discover_node(R, b, Head(nodes))
                                      ELSE discover_node(R, b, Head(nodes)),
                       be, b, Tail(nodes))

juju_result_drops_perm(R, b) == R.ret

(* The test after the loop of the Linux platform_update_device_list *)
juju_discovery_result(R, b) ==
    IF R.w.bus[b].ndev = 0 /\ R.perm_skipped > 0
    THEN FORENSIC1394_RESULT_NO_PERM
    ELSE R.ret

platform_update_device_list(W, be, b, match, nodes, gen) ==
    LET W1 == Emit(W, Ev("platform_update_device_list", b, 0))
        R0 == [w |-> W1, ret |-> FORENSIC1394_RESULT_SUCCESS, perm_skipped |-> 0,
               generation |-> gen, fds |-> 0]
    IN  IF be = "juju"
        THEN LET R == discover_loop(R0, be, b, nodes)
             IN  [w   |-> [R.w EXCEPT !.bus[b].scan_fds = @ + R.fds],
                  ret |-> juju_discovery_result(R, b)]
        ELSE IF match # "kIOReturnSuccess"
             THEN [w |-> W1, ret |-> FORENSIC1394_RESULT_OTHER_ERROR]
             ELSE LET R == discover_loop(R0, be, b, nodes)
                  IN  [w |-> R.w, ret |-> R.ret]

device_array_ends_early(link, n) ==
    <<>> \o [i \in 1 .. n + 1 |-> IF i >= n THEN 0
                                  ELSE IF i <= Len(link) THEN link[i] ELSE -1]

(* bus->dev as forensic1394_get_devices builds it: n + 1 slots from        *)
(* malloc (a slot never written holds -1), the devices of the linked list  *)
(* copied from the head, then NULL (0) stored at index n; slot i of the C  *)
(* array is entry i + 1 of the sequence                                    *)
device_array(link, n) ==
    <<>> \o [i \in 1 .. n + 1 |-> IF i = n + 1 THEN 0
                                  ELSE IF i <= Len(link) THEN link[i] ELSE -1]

get_devices_discovers_first(W, be, b, ondestroy, match, nodes, gen) ==
    LET old == W.bus[b].dev_link
        R   == platform_update_device_list(
                   [W EXCEPT !.bus[b].dev = NULL, !.bus[b].dev_link = <<>>,
                             !.bus[b].ndev = 0], be, b, match, nodes, gen)
        W1  == destroy_loop(R.w, b, old)
        arr == device_array(W1.bus[b].dev_link, W1.bus[b].ndev)
        n   == IF W1.bus[b].ndev > 0 THEN W1.bus[b].ndev ELSE R.ret
        W2  == [W1 EXCEPT !.bus[b].dev = arr, !.bus[b].ondestroy = ondestroy]
    IN  [w |-> Emit(W2, Ev("return", b, 0)), ret |-> arr, ndev |-> n]

forensic1394_get_devices(W, be, b, ondestroy, match, nodes, gen) ==
    LET W1  == forensic1394_destroy_all_devices(W, b)
        R   == platform_update_device_list(W1, be, b, match, nodes, gen)
        arr == device_array(R.w.bus[b].dev_link, R.w.bus[b].ndev)
        n   == IF R.w.bus[b].ndev > 0 THEN R.w.bus[b].ndev ELSE R.ret
        W2  == [R.w EXCEPT !.bus[b].dev = arr, !.bus[b].ondestroy = ondestroy]
    IN  [w    |-> Emit(W2, Ev("return", b, 0)),
         ret  |-> arr,
         ndev |-> n]

----------------------------------------------------------------------------------------------------------------------------------------------------
(* SBP-2.  Linux: nodes is what each /dev/fw* path yields ("getinfo": the  *)
(* node opens but FW_CDEV_IOC_GET_INFO fails), desc the result of          *)
(* FW_CDEV_IOC_ADD_DESCRIPTOR.  IOKit: match and query are the IOReturns   *)
(* of IOServiceGetMatchingServices and QueryInterface, plugin whether a    *)
(* plug-in interface was created.                                          *)

(* A quadlet is its four bytes, most significant first *)
CSR_KEY(x)   == x[1]
CSR_VALUE(x) == x[2] * 65536 + x[3] * 256 + x[4]

CSR_DIRECTORY == 192
CSR_UNIT      == 17

(* The SBP-2 unit directory: number of entries and CRC16, then the entries *)
sbp2_unit_dir ==
    << <<0, 13, 196, 252>>,     \* 0x000dc4fc  # entries (13 << 16) and CRC16
       <<18, 0, 96, 158>>,      \* 0x1200609e  Spec ID
       <<19, 1, 4, 131>>,       \* 0x13010483  Version
       <<33, 0, 0, 1>>,         \* 0x21000001  Revision
       <<58, 0, 10, 8>>,        \* 0x3a000a08  Unit char
       <<62, 0, 76, 16>>,       \* 0x3e004c10  Fast start
       <<56, 0, 96, 158>>,      \* 0x3800609e  Command set spec
       <<57, 1, 4, 216>>,       \* 0x390104d8  SCSI
       <<59, 0, 0, 0>>,         \* 0x3b000000  Command set rev
       <<60, 10, 39, 0>>,       \* 0x3c0a2700  Firmware rev
       <<84, 0, 64, 0>>,        \* 0x54004000
       <<61, 0, 0, 3>>,         \* 0x3d000003  Reconnect timeout
       <<20, 14, 0, 0>>,        \* 0x140e0000  Logical unit number
       <<23, 0, 0, 33>> >>      \* 0x17000021  Model

Sbp2NodeAnswers == {"EACCES", "ENOENT", "getinfo", "foreign", "local"}

Sbp2IOReturns == {"kIOReturnSuccess", "kIOReturnError", "kIOReturnBusy"}

Sbp2Inputs(be) ==
    IF be = "juju"
    THEN {[nodes |-> n, desc |-> d, match |-> "kIOReturnSuccess", plugin |-> TRUE,
           query |-> "kIOReturnSuccess"] :
             n \in SeqsUpTo(Sbp2NodeAnswers, MaxNodes), d \in {"ok", "-1"}}
    ELSE {[nodes |-> <<>>, desc |-> "ok", match |-> m, plugin |-> pl, query |-> q] :
             m \in Sbp2IOReturns, pl \in BOOLEAN, q \in Sbp2IOReturns}

(* The for loop of the Linux platform_enable_sbp2: found is sbp2_fd # -1. *)
(* A failed open leaves no descriptor; a failed GET_INFO continues with    *)
(* the descriptor open; the local node's descriptor is saved and the loop  *)
(* left; a foreign node's is closed                                        *)
RECURSIVE juju_find_local(_, _)
juju_find_local(R, nodes) ==
    IF nodes = <<>> THEN R
    ELSE CASE Head(nodes) = "EACCES"  ->
                 juju_find_local([R EXCEPT !.perm_skipped = @ + 1], Tail(nodes))
           [] Head(nodes) = "ENOENT"  -> juju_find_local(R, Tail(nodes))
           [] Head(nodes) = "getinfo" -> juju_find_local(fd_open(R), Tail(nodes))
           [] Head(nodes) = "local"   -> [fd_open(R) EXCEPT !.found = TRUE]
           [] OTHER                   -> juju_find_local(fd_close(fd_open(R)), Tail(nodes))

(* Descriptors the Linux platform_enable_sbp2 leaves open: those of the    *)
(* loop, less sbp2_fd when FW_CDEV_IOC_ADD_DESCRIPTOR fails and it is      *)
(* closed                                                                  *)
juju_enable_fds(R, desc) ==
    IF R.found /\ desc = "-1" THEN fd_close(R).fds ELSE R.fds

juju_enable_perm_first(R, desc) ==
    IF R.perm_skipped > 0 THEN FORENSIC1394_RESULT_NO_PERM
    ELSE IF R.found /\ desc = "ok" THEN FORENSIC1394_RESULT_SUCCESS
    ELSE FORENSIC1394_RESULT_IO_ERROR

(* The if chain after the loop of the Linux platform_enable_sbp2 *)
juju_enable_result(R, desc) ==
    IF R.found
    THEN IF desc = "-1" THEN FORENSIC1394_RESULT_IO_ERROR
                        ELSE FORENSIC1394_RESULT_SUCCESS
    ELSE IF R.perm_skipped > 0 THEN FORENSIC1394_RESULT_NO_PERM
    ELSE FORENSIC1394_RESULT_IO_ERROR

(* The IOKit platform_enable_sbp2 up to the point it fails or publishes *)
iokit_enable_result(in) ==
    IF in.match # "kIOReturnSuccess" THEN convert_ioreturn(in.match)
    ELSE IF ~in.plugin THEN FORENSIC1394_RESULT_OTHER_ERROR
    ELSE IF in.query # "kIOReturnSuccess" THEN convert_ioreturn(in.query)
    ELSE FORENSIC1394_RESULT_SUCCESS

(* The descriptor of the Linux FW_CDEV_IOC_ADD_DESCRIPTOR: key is the top  *)
(* byte of (CSR_DIRECTORY | CSR_UNIT) << 24; the two share no bit          *)
juju_add_desc(sbp2dir, len) ==
    [data   |-> sbp2dir,
     length |-> len,
     key    |-> CSR_DIRECTORY + CSR_UNIT]

iokit_add_entries_from_header(sbp2dir, len) ==
    [i \in 1 .. len |-> <<CSR_KEY(sbp2dir[i]), CSR_VALUE(sbp2dir[i])>>]

(* The AddEntry_UInt32 loop of the IOKit platform_enable_sbp2: C index i   *)
(* from 1 to len - 1 is position i + 1 here                                *)
iokit_add_entries(sbp2dir, len) ==
    [i \in 1 .. len - 1 |-> <<CSR_KEY(sbp2dir[i + 1]), CSR_VALUE(sbp2dir[i + 1])>>]

(* On success the directory is published and pbus keeps the handle; on    *)
(* failure nothing is kept (Linux closes the descriptor and resets         *)
(* sbp2_fd to -1)                                                          *)
platform_enable_sbp2(W, be, b, in, sbp2dir, len) ==
    LET W0  == Emit(W, Ev("platform_enable_sbp2", b, 0))
        F   == juju_find_local([found |-> FALSE, perm_skipped |-> 0, fds |-> 0], in.nodes)
        W1  == IF be = "juju"
               THEN [W0 EXCEPT !.bus[b].scan_fds = @ + juju_enable_fds(F, in.desc)]
               ELSE W0
        ret == IF be = "juju"
               THEN juju_enable_result(F, in.desc)
               ELSE iokit_enable_result(in)
    IN  [w   |-> IF ret = FORENSIC1394_RESULT_SUCCESS
                 THEN [Emit(W1, Ev("sbp2_publish", b, 0)) EXCEPT
                          !.bus[b].sbp2_handle = TRUE,
                          !.bus[b].published   = @ + 1,
                          !.bus[b].add_desc    =
                              IF be = "juju" THEN juju_add_desc(sbp2dir, len) ELSE @,
                          !.bus[b].unit_dir    =
                              IF be = "juju" THEN @ ELSE iokit_add_entries(sbp2dir, len)]
                 ELSE W1,
         ret |-> ret]

enable_sbp2_marks_always(W, be, b, in) ==
    IF W.bus[b].sbp2_enabled
    THEN [w |-> W, ret |-> 1]
    ELSE LET R == platform_enable_sbp2(W, be, b, in, sbp2_unit_dir, Len(sbp2_unit_dir))
         IN  [w |-> [R.w EXCEPT !.bus[b].sbp2_enabled = TRUE], ret |-> R.ret]

enable_sbp2_always_delegates(W, be, b, in) ==
    LET R == platform_enable_sbp2(W, be, b, in, sbp2_unit_dir, Len(sbp2_unit_dir))
    IN  [w   |-> IF R.ret = FORENSIC1394_RESULT_SUCCESS
                 THEN [R.w EXCEPT !.bus[b].sbp2_enabled = TRUE]
                 ELSE R.w,
         ret |-> R.ret]

forensic1394_enable_sbp2(W, be, b, in) ==
    IF W.bus[b].sbp2_enabled
    THEN [w |-> W, ret |-> 1]
    ELSE LET R == platform_enable_sbp2(W, be, b, in, sbp2_unit_dir, Len(sbp2_unit_dir))
         IN  [w   |-> IF R.ret = FORENSIC1394_RESULT_SUCCESS
                      THEN [R.w EXCEPT !.bus[b].sbp2_enabled = TRUE]
                      ELSE R.w,
              ret |-> R.ret]

----------------------------------------------------------------------------
(* Bus destruction *)

bus_destroy_keeps_publication(W, b) ==
    [Emit(W, Ev("platform_bus_destroy", b, 0)) EXCEPT !.bus[b].pbus = FALSE]

(* Linux: close(sbp2_fd), the descriptor the unit directory was added      *)
(* through; IOKit: Unpublish and Release the unit directory, Close and     *)
(* Release the local device; both only if sbp2_enabled                     *)
platform_bus_destroy(W, b) ==
    LET W1 == Emit(W, Ev("platform_bus_destroy", b, 0))
        W2 == IF W1.bus[b].sbp2_enabled
              THEN [Emit(W1, Ev("sbp2_revoke", b, 0)) EXCEPT
                       !.bus[b].sbp2_handle = FALSE,
                       !.bus[b].revoked     = @ + 1,
                       !.bus[b].scan_fds    =
                           IF W1.bus[b].add_desc.length > 0 THEN @ - 1 ELSE @]
              ELSE W1
    IN  [W2 EXCEPT !.bus[b].pbus = FALSE]

forensic1394_destroy(W, b) ==
    LET W1 == forensic1394_destroy_all_devices(W, b)
        W2 == platform_bus_destroy(W1, b)
    IN  [Emit(W2, Ev("free_bus", b, 0)) EXCEPT !.bus[b].alive = FALSE]

----------------------------------------------------------------------------------------------------------------------------------------
(* The lifecycle specification: the public operations on buses and devices *)

World == [bus |-> bus, devs |-> devs, next |-> nextdev, trace |-> <<>>]

Range(f) == {f[i] : i \in DOMAIN f}

(* The record of a public call: its arguments, its result and what the      *)
(* bus held when it was made                                                *)
Op(op, b, d, cb, ret, ndev) ==
    [op      |-> op,
     bus     |-> b,
     dev     |-> d,
     cb      |-> cb,
     ret     |-> ret,
     ndev    |-> ndev,
     perm    |-> FALSE,
     failed  |-> FALSE,
     local   |-> FALSE,
     descok  |-> FALSE,
     wason   |-> IF b \in Buses THEN bus[b].sbp2_enabled ELSE FALSE,
     old     |-> IF b \in Buses THEN bus[b].dev_link ELSE <<>>,
     oldarr  |-> IF b \in Buses THEN bus[b].dev ELSE NULL,
     oldcb   |-> IF b \in Buses THEN bus[b].ondestroy ELSE NULL,
     oldfds  |-> IF b \in Buses THEN bus[b].scan_fds ELSE 0,
     oldopen |-> {x \in DOMAIN devs : devs[x].is_open},
     wasopen |-> IF d \in DOMAIN devs THEN devs[d].is_open ELSE FALSE,
     aborted |-> FALSE]

NoEngine ==
    /\ eng = [pc |-> "off"]
    /\ krn = [on |-> FALSE]
    /\ obs = [on |-> FALSE]

NoRom ==
    /\ csr = [pc |-> "off"]
    /\ res = [pc |-> "off"]

Init ==
    /\ backend \in Backends
    /\ bus     = [b \in Buses |-> forensic1394_alloc]
    /\ devs    = [d \in DevIds |-> NoDev]
    /\ nextdev = 1
    /\ trace   = <<>>
    /\ lastOp  = [Op("alloc", NULL, 0, NULL, NULL, NULL) EXCEPT
                     !.old = <<>>, !.oldcb = NULL, !.oldopen = {}, !.wasopen = FALSE,
                     !.wason = FALSE]
    /\ NoEngine
    /\ NoRom

LiveDevs == {d \in DevIds : devs[d].state = "live"}

(* Remember, for each device an enumeration returns, the callback that     *)
(* enumeration was given                                                   *)
Registered(W, arr, cb) ==
    [W EXCEPT !.devs = [d \in DOMAIN W.devs |->
                           IF d \in Range(arr)
                           THEN [W.devs[d] EXCEPT !.cb_reg = cb]
                           ELSE W.devs[d]]]

Store(W) ==
    /\ bus'     = W.bus
    /\ devs'    = W.devs
    /\ nextdev' = W.next
    /\ trace'   = W.trace

(* What discovery met: a node skipped for a permission failure; a failure *)
(* of the platform's enumeration or of a node's interfaces                 *)
PermSkipped(nodes) == Cardinality({i \in 1 .. Len(nodes) : nodes[i] = "EACCES"})

DiscoverySucceeded(match, nodes) ==
    /\ match = "kIOReturnSuccess"
    /\ \A i \in 1 .. Len(nodes) : nodes[i] \notin {"noplugin", "notinited"}

GetDevicesUpTo(maxdevs) ==
    \E b \in Buses, cb \in Callbacks \cup {NULL},
       match \in {"kIOReturnSuccess", "kIOReturnError"},
       nodes \in DiscoveryInputs(backend), gen \in {MaxGeneration} :
        /\ bus[b].alive
        /\ match # "kIOReturnSuccess" => (nodes = <<>> /\ backend = "iokit")
        /\ nextdev + CountOk(nodes) <= maxdevs + 1
        /\ \E R \in {forensic1394_get_devices(World, backend, b, cb, match, nodes, gen)} :
               /\ Store(Registered(R.w, R.ret, cb))
               /\ lastOp' = [Op("get_devices", b, 0, cb, R.ret, R.ndev) EXCEPT
                                 !.perm   = PermSkipped(nodes) > 0,
                                 !.failed = ~DiscoverySucceeded(match, nodes)]
        /\ UNCHANGED <<backend, reqVars, romVars>>

GetDevices == GetDevicesUpTo(MaxDevs)

OpenDevice ==
    \E d \in LiveDevs, o \in PlatformOpenAnswers(backend) :
        /\ devs[d].opens < MaxOpens
        /\ \E R \in {forensic1394_open_device(World, backend, d, o)} :
               /\ Store(R.w)
               /\ lastOp' = Op("open_device", devs[d].bus, d, NULL, R.ret, NULL)
        /\ UNCHANGED <<backend, reqVars, romVars>>

CloseDevice ==
    \E d \in LiveDevs :
        /\ \E W \in {forensic1394_close_device(World, d)} : Store(W)
        /\ lastOp' = Op("close_device", devs[d].bus, d, NULL, NULL, NULL)
        /\ UNCHANGED <<backend, reqVars, romVars>>

Destroy ==
    \E b \in Buses :
        /\ bus[b].alive
        /\ \E W \in {forensic1394_destroy(World, b)} : Store(W)
        /\ lastOp' = Op("destroy", b, 0, NULL, NULL, NULL)
        /\ UNCHANGED <<backend, reqVars, romVars>>

EnableSbp2 ==
    \E b \in Buses, in \in Sbp2Inputs(backend) :
        /\ bus[b].alive
        /\ \E R \in {forensic1394_enable_sbp2(World, backend, b, in)} :
               /\ R.w.bus[b].scan_fds <= MaxScanFds
               /\ Store(R.w)
               /\ lastOp' = [Op("enable_sbp2", b, 0, NULL, R.ret, NULL) EXCEPT
                                 !.perm   = PermSkipped(in.nodes) > 0,
                                 !.local  = "local" \in Range(in.nodes),
                                 !.descok = in.desc = "ok",
                                 !.failed = iokit_enable_result(in) # 0]
        /\ UNCHANGED <<backend, reqVars, romVars>>

Next == GetDevices \/ OpenDevice \/ CloseDevice \/ Destroy

Spec == Init /\ [][Next]_vars

(* The same operations with enable_sbp2, on a bus that sees fewer devices *)
Sbp2GetDevices == GetDevicesUpTo(MaxSbp2Devs)

NextSbp2 == Sbp2GetDevices \/ OpenDevice \/ CloseDevice \/ EnableSbp2 \/ Destroy

SpecSbp2 == Init /\ [][NextSbp2]_vars

----------------------------------------------------------------------------
(* Reads and writes as the caller sees them (common.c): the four entry     *)
(* points assert that the device is open and hand the batch to             *)
(* platform_send_requests, whose result (platres) they return.  A failed   *)
(* assertion ends the process.                                             *)

MaxIoDevs == 2     \* devices allocated over one run that also reads and writes

PlatformResults ==
    {FORENSIC1394_RESULT_SUCCESS, FORENSIC1394_RESULT_BUS_RESET,
     FORENSIC1394_RESULT_BUSY, FORENSIC1394_RESULT_IO_ERROR,
     FORENSIC1394_RESULT_IO_SIZE, FORENSIC1394_RESULT_IO_TIMEOUT}

IoFunctions ==
    {"forensic1394_read_device", "forensic1394_read_device_v",
     "forensic1394_write_device", "forensic1394_write_device_v"}

assert_failed(W, d) ==
    [w |-> Emit(W, Ev("abort", W.devs[d].bus, d)), ret |-> NULL, aborted |-> TRUE]

platform_send_requests(W, d, t, platres) ==
    [w |-> Emit(W, Ev("platform_send_requests", W.devs[d].bus, d)),
     ret |-> platres, aborted |-> FALSE]

read_device_unchecked(W, d, platres) ==
    platform_send_requests(W, d, "REQUEST_TYPE_READ", platres)

forensic1394_read_device(W, d, platres) ==
    IF ~W.devs[d].is_open THEN assert_failed(W, d)
    ELSE platform_send_requests(W, d, "REQUEST_TYPE_READ", platres)

forensic1394_read_device_v(W, d, platres) ==
    IF ~W.devs[d].is_open THEN assert_failed(W, d)
    ELSE platform_send_requests(W, d, "REQUEST_TYPE_READ", platres)

forensic1394_write_device(W, d, platres) ==
    IF ~W.devs[d].is_open THEN assert_failed(W, d)
    ELSE platform_send_requests(W, d, "REQUEST_TYPE_WRITE", platres)

forensic1394_write_device_v(W, d, platres) ==
    IF ~W.devs[d].is_open THEN assert_failed(W, d)
    ELSE platform_send_requests(W, d, "REQUEST_TYPE_WRITE", platres)

io_call(W, fn, d, platres) ==
    CASE fn = "forensic1394_read_device"    -> forensic1394_read_device(W, d, platres)
      [] fn = "forensic1394_read_device_v"  -> forensic1394_read_device_v(W, d, platres)
      [] fn = "forensic1394_write_device"   -> forensic1394_write_device(W, d, platres)
      [] fn = "forensic1394_write_device_v" -> forensic1394_write_device_v(W, d, platres)

Running == ~lastOp.aborted

ReadWriteDevice ==
    \E d \in LiveDevs, fn \in IoFunctions, platres \in PlatformResults :
        /\ Running
        /\ \E R \in {io_call(World, fn, d, platres)} :
               /\ Store(R.w)
               /\ lastOp' = [Op(fn, devs[d].bus, d, NULL, R.ret, NULL) EXCEPT
                                 !.aborted = R.aborted]
        /\ UNCHANGED <<backend, reqVars, romVars>>

IoGetDevices  == Running /\ GetDevicesUpTo(MaxIoDevs)
IoOpenDevice  == Running /\ OpenDevice
IoCloseDevice == Running /\ CloseDevice
IoDestroy     == Running /\ Destroy

NextIo == IoGetDevices \/ IoOpenDevice \/ IoCloseDevice \/ ReadWriteDevice \/ IoDestroy

SpecIo == Init /\ [][NextIo]_vars

----------------------------------------------------------------------------
(* Properties of the lifecycle *)

ListOp == lastOp.op \in {"get_devices", "destroy"}

(* The one position of an event in the last operation's trace, 0 if none *)
At(e, d) == IF Pos(trace, e, d) = {} THEN 0 ELSE CHOOSE i \in Pos(trace, e, d) : TRUE

Once(e, d) == Cardinality(Pos(trace, e, d)) = 1
Never(e, d) == Pos(trace, e, d) = {}

(* C1: when get_devices is called on a bus holding a device list A, every  *)
(* device of A is destroyed (closed if it was open, its destruction         *)
(* callback invoked, its platform state released, freed) before platform   *)
(* discovery runs and before any device of the new list is created or the  *)
(* new array is returned.                                                  *)
C1_OldListDestroyedBeforeDiscovery ==
    lastOp.op = "get_devices" =>
        /\ Cardinality(PosE(trace, "platform_update_device_list")) = 1
        /\ \A a \in Range(lastOp.old) :
            /\ devs[a].state = "freed"
            /\ ~devs[a].is_open /\ ~devs[a].handle /\ ~devs[a].pdev
            /\ a \notin Range(lastOp.ret)
            /\ Once("free", a) /\ Once("platform_device_destroy", a)
            /\ (a \in lastOp.oldopen) => Once("platform_close_device", a)
            /\ (lastOp.oldcb # NULL) => Once("ondestroy", a)
            /\ \A i \in Pos(trace, "platform_close_device", a)
                        \cup Pos(trace, "ondestroy", a)
                        \cup Pos(trace, "platform_device_destroy", a)
                        \cup Pos(trace, "free", a) :
                   \A j \in PosE(trace, "platform_update_device_list")
                            \cup PosE(trace, "new_device")
                            \cup PosE(trace, "return") : i < j

C1_Witness ==
    /\ lastOp.op = "get_devices"
    /\ Len(lastOp.old) = 1
    /\ Range(lastOp.old) \subseteq lastOp.oldopen
    /\ lastOp.oldcb # NULL
    /\ Len(lastOp.ret) = 2

C7_OpenImpliesValidHandle ==
    \A d \in DevIds :
        devs[d].is_open =>
            /\ devs[d].state = "live"
            /\ devs[d].handle
            /\ devs[d].opens = devs[d].closes + 1

C7_Witness ==
    \E d \in DevIds :
        /\ devs[d].is_open
        /\ devs[d].opens = 2
        /\ lastOp.op = "open_device" /\ lastOp.dev = d

C9_DestroyOrder ==
    ListOp =>
        /\ \A a \in Range(lastOp.old) :
            /\ IF a \in lastOp.oldopen
               THEN Once("platform_close_device", a)
               ELSE Never("platform_close_device", a)
            /\ IF lastOp.oldcb # NULL
               THEN Once("ondestroy", a)
               ELSE Never("ondestroy", a)
            /\ Once("platform_device_destroy", a)
            /\ Once("free", a)
            /\ \A i \in Pos(trace, "platform_close_device", a) :
                  \A j \in Pos(trace, "ondestroy", a)
                           \cup Pos(trace, "platform_device_destroy", a) : i < j
            /\ \A i \in Pos(trace, "ondestroy", a) :
                  /\ i < At("platform_device_destroy", a)
                  /\ ~trace[i].is_open
                  /\ trace[i].live
            /\ At("platform_device_destroy", a) < At("free", a)
        /\ lastOp.op = "destroy" =>
            /\ Cardinality(PosE(trace, "platform_bus_destroy")) = 1
            /\ \A i \in PosE(trace, "free") :
                  \A j \in PosE(trace, "platform_bus_destroy") : i < j

C9_Witness ==
    /\ lastOp.op = "destroy"
    /\ Len(lastOp.old) = 2
    /\ lastOp.oldcb # NULL
    /\ Cardinality(Range(lastOp.old) \cap lastOp.oldopen) = 1
    /\ Len(trace) = 9

(* C10: the platform close is invoked exactly once for each successful      *)
(* platform open of a device: not a second time for a device the caller     *)
(* closed itself, and not skipped for a device still open when its list is  *)
(* destroyed; no device handle remains open after its bus is destroyed.     *)
C10_CloseOncePerOpen ==
    \A d \in DevIds :
        /\ devs[d].closes <= devs[d].opens
        /\ devs[d].opens = devs[d].closes + (IF devs[d].handle THEN 1 ELSE 0)
        /\ devs[d].state = "freed" => devs[d].opens = devs[d].closes
        /\ (devs[d].state # "unused" /\ ~bus[devs[d].bus].alive) =>
              /\ ~devs[d].handle
              /\ devs[d].opens = devs[d].closes

C10_Witness ==
    /\ lastOp.op = "destroy"
    /\ \E d, e \in Range(lastOp.old) :
          /\ d \in lastOp.oldopen /\ devs[d].opens = 2 /\ devs[d].closes = 2
          /\ e \notin lastOp.oldopen /\ devs[e].opens = 1 /\ devs[e].closes = 1

(* C11: after get_devices with a count out-parameter, the value written   *)
(* is the number of devices in the returned array whenever at least one    *)
(* device was discovered, even if other nodes were skipped; when none was  *)
(* discovered it is NO_PERM if a node was skipped for a permission         *)
(* failure, and otherwise the result of platform discovery: 0 when it      *)
(* succeeded.                                                              *)
C11_CountOutParameter ==
    lastOp.op = "get_devices" =>
        LET n == Len(lastOp.ret) - 1
        IN  /\ lastOp.ret[n + 1] = 0
            /\ \A i \in 1 .. n : devs[lastOp.ret[i]].state = "live"
            /\ n > 0 => lastOp.ndev = n
            /\ (n = 0 /\ lastOp.perm) => lastOp.ndev = FORENSIC1394_RESULT_NO_PERM
            /\ (n = 0 /\ ~lastOp.perm)
                   => lastOp.ndev = IF lastOp.failed THEN FORENSIC1394_RESULT_OTHER_ERROR
                                                     ELSE 0

C11_Witness ==
    /\ lastOp.op = "get_devices"
    /\ lastOp.perm /\ ~lastOp.failed
    /\ lastOp.ret = <<0>>
    /\ lastOp.old # <<>>
    /\ lastOp.ndev = FORENSIC1394_RESULT_NO_PERM

(* C12: an operation that returns an error leaves the library state as it *)
(* was: a failed open leaves the device closed and without a handle, a     *)
(* failed enable_sbp2 leaves the bus with SBP-2 disabled and no SBP-2      *)
(* platform handle, so the call may be made again.  The state compared is *)
(* that of the library's objects: the descriptors the process holds are no *)
(* field of the bus.                                                       *)
LibraryBuses(B) == [b \in Buses |-> [B[b] EXCEPT !.scan_fds = 0]]

C16_EnableIdempotent ==
    /\ \A b \in Buses : bus[b].published <= 1
    /\ (lastOp.op = "enable_sbp2" /\ lastOp.wason) =>
          /\ lastOp.ret > 0
          /\ trace = <<>>
          /\ bus[lastOp.bus].sbp2_enabled
          /\ bus[lastOp.bus].published = 1

C16_Witness ==
    /\ lastOp.op = "enable_sbp2" /\ lastOp.wason
    /\ lastOp.ret = 1
    /\ bus[lastOp.bus].published = 1

(* C17: on Linux enable_sbp2 returns NO_PERM exactly when no local node    *)
(* could be opened and at least one candidate node was skipped for a       *)
(* permission failure; when no local node is found and nothing was skipped *)
(* for permissions, or when installing the descriptor on the local node    *)
(* fails, it returns IO_ERROR.                                             *)
C17_LinuxEnableResult ==
    (backend = "juju" /\ lastOp.op = "enable_sbp2" /\ ~lastOp.wason) =>
        /\ lastOp.ret = FORENSIC1394_RESULT_NO_PERM <=> (~lastOp.local /\ lastOp.perm)
        /\ (~lastOp.local /\ ~lastOp.perm) => lastOp.ret = FORENSIC1394_RESULT_IO_ERROR
        /\ (lastOp.local /\ ~lastOp.descok) => lastOp.ret = FORENSIC1394_RESULT_IO_ERROR
        /\ (lastOp.local /\ lastOp.descok) => lastOp.ret = FORENSIC1394_RESULT_SUCCESS

C17_Witness ==
    /\ backend = "juju" /\ lastOp.op = "enable_sbp2" /\ ~lastOp.wason
    /\ ~lastOp.local /\ lastOp.perm
    /\ lastOp.ret = FORENSIC1394_RESULT_NO_PERM

(* C18: destroying a bus on which enable_sbp2 succeeded revokes the        *)
(* publication exactly once; destroying a bus on which it never succeeded  *)
(* revokes nothing; in every state of a bus sbp2_enabled is true exactly   *)
(* when an SBP-2 platform handle is held.                                  *)
C18_PublicationRevokedOnDestroy ==
    /\ \A b \in Buses :
          /\ bus[b].alive => (bus[b].sbp2_enabled <=> bus[b].sbp2_handle)
          /\ bus[b].alive => bus[b].revoked = 0
          /\ ~bus[b].alive => (~bus[b].sbp2_handle /\ bus[b].revoked = bus[b].published)
    /\ lastOp.op = "destroy" =>
          /\ Cardinality(PosE(trace, "sbp2_revoke")) = IF lastOp.wason THEN 1 ELSE 0
          /\ bus[lastOp.bus].revoked = IF lastOp.wason THEN 1 ELSE 0
          /\ \A i \in PosE(trace, "sbp2_revoke") :
                \A j \in PosE(trace, "free_bus") : i < j

C18_Witness ==
    /\ lastOp.op = "destroy" /\ lastOp.wason
    /\ bus[lastOp.bus].published = 1 /\ bus[lastOp.bus].revoked = 1
    /\ ~bus[lastOp.bus].sbp2_handle

----------------------------------------------------------------------------
(* The request engine: send_requests of the two backends.  A call blocks   *)
(* in poll (Linux) or in the run loop (IOKit); the model cuts it there, so *)
(* an action is the code from one wait to the next or to the return.       *)
(* S is the record [eng, krn, obs] the code and the platform work on.      *)

REQUEST_PIPELINE_SZ        == 1
FORENSIC1394_NUM_READ_CMD  == 4
FORENSIC1394_NUM_WRITE_CMD == 1
FORENSIC1394_TIMEOUT_MS    == 150

MaxReq     == 3    \* requests of one batch
MaxBatches == 2    \* batch calls made on the open device
MaxOther   == 1    \* events other than responses the kernel queues

REQUEST_TYPE_READ  == "REQUEST_TYPE_READ"
REQUEST_TYPE_WRITE == "REQUEST_TYPE_WRITE"
ReqTypes == {REQUEST_TYPE_READ, REQUEST_TYPE_WRITE}
ReqLens  == {4, 8}
Batches  == UNION {[1 .. n -> ReqLens] : n \in 0 .. MaxReq}

Rcodes       == {"RCODE_COMPLETE", "RCODE_BUSY", "RCODE_GENERATION", "RCODE_CANCELLED"}
IoctlAnswers == {"ok", "EIO", "ENODEV"}
IoctlInputs  == [1 .. REQUEST_PIPELINE_SZ -> IoctlAnswers]

(* What a caller buffer holds: <<batch, k>> is the payload of the response *)
(* to request k of batch number batch; NoTag is an untouched buffer.       *)
Tag(bt, k) == <<bt, k>>
NoTag      == <<0, 0>>

NoStep == [kind |-> "none", code |-> "", lenok |-> TRUE, stale |-> FALSE,
           closure |-> 0, before |-> 0, after |-> 0, abort |-> FALSE,
           signalled |-> FALSE, waited |-> 0,
           own   |-> TRUE,     \* the payload has the length its own request asked for
           wrote |-> FALSE]    \* the step wrote a caller buffer

(* A command as create_commands makes it: failOnReset 0, generation 0 *)
IdleCmd == [exec |-> FALSE, batch |-> 0, k |-> 0, failOnReset |-> FALSE, generation |-> 0]

req_len(S, k) == S.eng.lens[k + 1]

Return(S, r) == [S EXCEPT !.eng.pc = "idle", !.obs.ret = r]

(* The state a batch call starts from: i = 0, nothing in the pipeline, the *)
(* caller's buffers untouched                                              *)
enter_send_requests(S, t, lens, ncmd) ==
    [S EXCEPT !.eng = [pc |-> "run", t |-> t, lens |-> lens, nreq |-> Len(lens),
                       i |-> 0, in_pipeline |-> 0, batch |-> S.eng.batch + 1,
                       cmdret |-> S.eng.cmdret, ncmd |-> ncmd],
              !.obs = [ret |-> 0, buf |-> [k \in 0 .. MaxReq - 1 |-> NoTag],
                       sent |-> {}, order |-> <<>>, okd |-> {}, okidx |-> {}, stales |-> FALSE,
                       wild |-> FALSE, last |-> NoStep]]

----------------------------------------------------------------------------
(* Linux (juju.c) *)

request_tcode_block_always(len, t) ==
    IF t = REQUEST_TYPE_READ THEN "TCODE_READ_BLOCK_REQUEST"
                             ELSE "TCODE_WRITE_BLOCK_REQUEST"

request_tcode(len, t) ==
    IF t = REQUEST_TYPE_READ
    THEN (IF len = 4 THEN "TCODE_READ_QUADLET_REQUEST" ELSE "TCODE_READ_BLOCK_REQUEST")
    ELSE (IF len = 4 THEN "TCODE_WRITE_QUADLET_REQUEST" ELSE "TCODE_WRITE_BLOCK_REQUEST")

(* One FW_CDEV_IOC_SEND_REQUEST; answer is what ioctl returns *)
juju_send_request_without_generation(S, answer) ==
    IF answer # "ok"
    THEN Return(S, IF answer = "EIO" THEN FORENSIC1394_RESULT_IO_SIZE
                                     ELSE FORENSIC1394_RESULT_IO_ERROR)
    ELSE [S EXCEPT !.krn.wire = @ \cup {[batch   |-> S.eng.batch,
                                         closure |-> S.eng.i,
                                         generation |-> 0,
                                         len     |-> req_len(S, S.eng.i),
                                         t       |-> S.eng.t,
                                         tcode   |-> request_tcode(req_len(S, S.eng.i), S.eng.t)]},
                   !.obs.sent        = @ \cup {S.eng.i},
                   !.obs.order       = Append(@, S.eng.i),
                   !.eng.i           = @ + 1,
                   !.eng.in_pipeline = @ + 1]

juju_send_request(S, answer) ==
    IF answer # "ok"
    THEN Return(S, IF answer = "EIO" THEN FORENSIC1394_RESULT_IO_SIZE
                                     ELSE FORENSIC1394_RESULT_IO_ERROR)
    ELSE [S EXCEPT !.krn.wire = @ \cup {[batch   |-> S.eng.batch,
                                         closure |-> S.eng.i,
                                         generation |-> S.dev.generation,
                                         len     |-> req_len(S, S.eng.i),
                                         t       |-> S.eng.t,
                                         tcode   |-> request_tcode(req_len(S, S.eng.i), S.eng.t)]},
                   !.obs.sent        = @ \cup {S.eng.i},
                   !.obs.order       = Append(@, S.eng.i),
                   !.eng.i           = @ + 1,
                   !.eng.in_pipeline = @ + 1]

RECURSIVE juju_fill_one_too_many(_, _)
juju_fill_one_too_many(S, answers) ==
    IF S.eng.pc = "run" /\ S.eng.in_pipeline <= REQUEST_PIPELINE_SZ /\ S.eng.i < S.eng.nreq
    THEN juju_fill_one_too_many(juju_send_request(S, Head(answers)), answers)
    ELSE S

RECURSIVE juju_fill_pipeline(_, _)
juju_fill_pipeline(S, answers) ==
    IF S.eng.pc = "run" /\ S.eng.in_pipeline < REQUEST_PIPELINE_SZ /\ S.eng.i < S.eng.nreq
    THEN juju_fill_pipeline(juju_send_request(S, Head(answers)), Tail(answers))
    ELSE S

(* The head of the outer loop up to poll, or the return after the loop *)
juju_loop(S, answers) ==
    IF S.eng.i < S.eng.nreq \/ S.eng.in_pipeline > 0
    THEN LET S1 == juju_fill_pipeline(S, answers)
         IN  IF S1.eng.pc = "run" THEN [S1 EXCEPT !.eng.pc = "wait"] ELSE S1
    ELSE Return(S, FORENSIC1394_RESULT_SUCCESS)

(* in_pipeline--, and for the record: the index the completion carried,   *)
(* and whether it answered a request of this batch                         *)
juju_retire(S, ev) ==
    [S EXCEPT !.eng.in_pipeline = @ - 1,
              !.obs.okidx  = @ \cup {ev.closure},
              !.obs.stales = @ \/ ev.batch # S.eng.batch,
              !.obs.okd = IF ev.batch = S.eng.batch THEN @ \cup {ev.closure} ELSE @]

(* FW_CDEV_EVENT_RESPONSE.  oob decides the comparison with req[closure]   *)
(* when closure is not an index of req (a read outside the array).         *)
juju_response(S, ev, oob) ==
    CASE ev.rcode = "RCODE_COMPLETE" ->
            IF S.eng.t = REQUEST_TYPE_READ
            THEN IF ev.closure < S.eng.nreq
                 THEN IF ev.length = req_len(S, ev.closure)
                      THEN juju_retire([S EXCEPT !.obs.buf[ev.closure] =
                                                     Tag(ev.batch, ev.closure)], ev)
                      ELSE Return(S, FORENSIC1394_RESULT_IO_ERROR)
                 ELSE IF oob
                      THEN juju_retire([S EXCEPT !.obs.wild = TRUE], ev)
                      ELSE Return(S, FORENSIC1394_RESULT_IO_ERROR)
            ELSE juju_retire(S, ev)
      [] ev.rcode = "RCODE_BUSY"       -> Return(S, FORENSIC1394_RESULT_BUSY)
      [] ev.rcode = "RCODE_GENERATION" -> Return(S, FORENSIC1394_RESULT_BUS_RESET)
      [] OTHER                         -> Return(S, FORENSIC1394_RESULT_IO_ERROR)

poll_timeout_keeps_waiting(S) == S

juju_poll_timeout(S) == Return(S, FORENSIC1394_RESULT_IO_TIMEOUT)

(* From the return of poll to the end of the loop body *)
juju_wait(S, revents, readok, oob) ==
    IF revents = "POLLIN"
    THEN IF readok
         THEN LET ev == Head(S.krn.evq)
                  S1 == [S EXCEPT !.krn.evq = Tail(@), !.eng.pc = "run"]
              IN  IF ev.type = "FW_CDEV_EVENT_RESPONSE"
                  THEN juju_response(S1, ev, oob)
                  ELSE S1
         ELSE Return(S, FORENSIC1394_RESULT_IO_ERROR)
    ELSE juju_poll_timeout(S)

----------------------------------------------------------------------------
(* Mac OS X (iokit.c) *)

nmaxcmd(t) == IF t = REQUEST_TYPE_READ THEN FORENSIC1394_NUM_READ_CMD
                                       ELSE FORENSIC1394_NUM_WRITE_CMD

(* ncmd of platform_send_requests *)
platform_send_requests_ncmd(t, nreq) == IF nreq > nmaxcmd(t) THEN nmaxcmd(t) ELSE nreq

request_complete(r, result) == IF r = "kIOReturnSuccess" THEN result ELSE r

cancel_commands_in_pipeline(S) ==
    [S EXCEPT !.krn.cmd[S.eng.t] =
        [j \in DOMAIN @ |-> IF j < S.eng.in_pipeline /\ @[j].exec THEN IdleCmd ELSE @[j]]]

(* Cancel on every command of the batch's type that IsExecuting; a         *)
(* cancelled command is no longer executing                                *)
cancel_commands(S) ==
    [S EXCEPT !.krn.cmd[S.eng.t] =
        [j \in DOMAIN @ |-> IF j < S.eng.ncmd /\ @[j].exec THEN IdleCmd ELSE @[j]]]

(* Leaving the loop with ret: cancel_commands, return ret *)
iokit_exit(S, ret) == Return(cancel_commands(S), ret)

(* SetTarget, SetBuffer, Submit of request i on command j *)
iokit_submit_command_again(S, j) ==
    [S EXCEPT !.krn.cmd[S.eng.t][j] = [@ EXCEPT !.exec = TRUE, !.batch = S.eng.batch,
                                                !.k = S.eng.i],
              !.obs.sent        = @ \cup {S.eng.i},
              !.obs.order       = Append(@, S.eng.i),
              !.eng.i           = IF @ + 1 < S.eng.nreq THEN @ ELSE @ + 1,
              !.eng.in_pipeline = @ + 1]

iokit_submit_command(S, j) ==
    [S EXCEPT !.krn.cmd[S.eng.t][j] = [@ EXCEPT !.exec = TRUE, !.batch = S.eng.batch,
                                                !.k = S.eng.i],
              !.obs.sent        = @ \cup {S.eng.i},
              !.obs.order       = Append(@, S.eng.i),
              !.eng.i           = @ + 1,
              !.eng.in_pipeline = @ + 1]

RECURSIVE iokit_submit(_, _)
iokit_submit(S, j) ==
    IF S.eng.in_pipeline < S.eng.ncmd /\ j < S.eng.ncmd /\ S.eng.i < S.eng.nreq
    THEN iokit_submit(IF ~S.krn.cmd[S.eng.t][j].exec
                      THEN iokit_submit_command(S, j) ELSE S, j + 1)
    ELSE S

(* The head of the loop up to CFRunLoopRunInMode, or the exit after it *)
iokit_loop(S) ==
    IF S.eng.i < S.eng.nreq \/ S.eng.in_pipeline > 0
    THEN [iokit_submit(S, 0) EXCEPT !.eng.pc = "wait"]
    ELSE iokit_exit(S, FORENSIC1394_RESULT_SUCCESS)

iokit_dispatch_fills_always(S, j, result) ==
    LET c == S.krn.cmd[S.eng.t][j]
    IN  [S EXCEPT !.krn.cmd[S.eng.t][j] = IdleCmd,
                  !.eng.cmdret = request_complete(@, result),
                  !.obs.buf[c.k] = Tag(c.batch, c.k),
                  !.obs.okidx = IF result = "kIOReturnSuccess" THEN @ \cup {c.k} ELSE @,
                  !.obs.okd = IF result = "kIOReturnSuccess" /\ c.batch = S.eng.batch
                              THEN @ \cup {c.k} ELSE @]

(* The run loop dispatches the completion of command j with status result: *)
(* IOKit has filled the buffer the command was given, the command is idle  *)
(* again and request_complete has run.                                     *)
iokit_dispatch(S, j, result) ==
    LET c == S.krn.cmd[S.eng.t][j]
    IN  [S EXCEPT !.krn.cmd[S.eng.t][j] = IdleCmd,
                  !.eng.cmdret = request_complete(@, result),
                  !.obs.buf[c.k] = IF S.eng.t = REQUEST_TYPE_READ /\ result = "kIOReturnSuccess"
                                   THEN Tag(c.batch, c.k) ELSE @,
                  !.obs.okidx  = IF result = "kIOReturnSuccess" THEN @ \cup {c.k} ELSE @,
                  !.obs.stales = @ \/ c.batch # S.eng.batch,
                  !.obs.okd = IF result = "kIOReturnSuccess" /\ c.batch = S.eng.batch
                              THEN @ \cup {c.k} ELSE @]

iokit_timeout_keeps_waiting(S) == S

iokit_runloop_timeout(S) == iokit_exit(S, FORENSIC1394_RESULT_IO_TIMEOUT)

(* From the return of CFRunLoopRunInMode to the end of the loop body *)
iokit_wait(S, lret, j, result) ==
    IF lret # "kCFRunLoopRunTimedOut"
    THEN LET S1 == [iokit_dispatch(S, j, result) EXCEPT
                        !.eng.in_pipeline = @ - 1, !.eng.pc = "run"]
         IN  IF S1.eng.cmdret # "kIOReturnSuccess"
             THEN iokit_exit(S1, convert_ioreturn(S1.eng.cmdret))
             ELSE S1
    ELSE iokit_runloop_timeout(S)

----------------------------------------------------------------------------
(* The request engine as a state machine: one device, enumerated and       *)
(* opened, on which the caller makes batch calls one after the other.      *)

OpenedWorld(be) ==
    LET W0 == [bus   |-> [b \in Buses |-> forensic1394_alloc],
               devs  |-> [d \in DevIds |-> NoDev],
               next  |-> 1,
               trace |-> <<>>]
        R1 == forensic1394_get_devices(W0, be, "busA", NULL, "kIOReturnSuccess",
                                       IF be = "juju" THEN <<"foreign">> ELSE <<"ok">>,
                                       MaxGeneration)
        R2 == forensic1394_open_device(Registered(R1.w, R1.ret, NULL), be, 1,
                                       IF be = "juju" THEN "fd" ELSE "kIOReturnSuccess")
    IN  R2.w

Eng == [eng |-> eng, krn |-> krn, obs |-> obs, dev |-> devs[1]]

StoreReq(S) ==
    /\ eng' = S.eng
    /\ krn' = S.krn
    /\ obs' = S.obs

(* No batch call has been made yet *)
IdleEngine ==
    /\ eng = [pc |-> "idle", t |-> REQUEST_TYPE_READ, lens |-> <<>>, nreq |-> 0,
              i |-> 0, in_pipeline |-> 0, batch |-> 0,
              cmdret |-> "kIOReturnSuccess", ncmd |-> 0]
    /\ krn = [wire |-> {}, evq |-> <<>>, nother |-> 0,
              cmd  |-> [t \in ReqTypes |-> [j \in 0 .. nmaxcmd(t) - 1 |-> IdleCmd]]]
    /\ obs = [ret |-> 0, buf |-> [k \in 0 .. MaxReq - 1 |-> NoTag],
              sent |-> {}, order |-> <<>>, okd |-> {}, okidx |-> {}, stales |-> FALSE,
                       wild |-> FALSE, last |-> NoStep]

InitReq ==
    /\ backend \in Backends
    /\ \E W \in {OpenedWorld(backend)} :
          /\ bus = W.bus /\ devs = W.devs /\ nextdev = W.next /\ trace = W.trace
    /\ lastOp = [Op("open_device", "busA", 1, NULL, FORENSIC1394_RESULT_SUCCESS, NULL) EXCEPT
                    !.old = <<1>>, !.oldcb = NULL, !.oldopen = {}, !.wasopen = FALSE]
    /\ NoRom
    /\ IdleEngine

(* forensic1394_read_device(_v) / forensic1394_write_device(_v) on Linux:  *)
(* the call up to its first poll or to its return                          *)
JujuSendRequestsUpTo(maxreq, maxbatches) ==
    \E t \in ReqTypes, lens \in {b \in Batches : Len(b) <= maxreq},
       answers \in IoctlInputs :
        /\ backend = "juju" /\ eng.pc = "idle" /\ eng.batch < maxbatches
        /\ devs[1].is_open
        /\ StoreReq(juju_loop(enter_send_requests(Eng, t, lens, 0), answers))
        /\ UNCHANGED <<backend, romVars, lifeVars>>

JujuSendRequests == JujuSendRequestsUpTo(MaxReq, MaxBatches)

(* poll returns: with POLLIN when an event is queued on the descriptor,    *)
(* without it when the 150 ms passed with nothing queued                   *)
JujuPoll ==
    \E revents \in (IF krn.evq # <<>> THEN {"POLLIN", "POLLIN|POLLHUP"}
                                      ELSE {"0", "POLLHUP"}),
       readok \in BOOLEAN, oob \in BOOLEAN, answers \in IoctlInputs :
        /\ backend = "juju" /\ eng.pc = "wait"
        /\ \E S1 \in {juju_wait(Eng, revents, readok, oob)} :
           \E step \in {IF revents = "POLLIN" /\ readok
                        THEN LET ev == Head(krn.evq)
                             IN  [NoStep EXCEPT
                                    !.kind    = IF ev.type = "FW_CDEV_EVENT_RESPONSE"
                                                THEN "completion" ELSE "other",
                                    !.code    = ev.rcode,
                                    !.lenok   = IF ev.closure < eng.nreq
                                                THEN ev.length = req_len(Eng, ev.closure)
                                                ELSE oob,
                                    !.stale   = ev.batch # eng.batch,
                                    !.own     = ~ev.short,
                                    !.closure = ev.closure]
                        ELSE [NoStep EXCEPT
                                    !.kind   = IF revents = "POLLIN" THEN "readerr"
                                                                     ELSE "timeout",
                                    !.waited = IF krn.evq = <<>>
                                               THEN FORENSIC1394_TIMEOUT_MS ELSE 0]} :
           \E S2 \in {[S1 EXCEPT !.obs.last =
                          [step EXCEPT !.before    = eng.in_pipeline,
                                       !.after     = S1.eng.in_pipeline,
                                       !.abort     = S1.eng.pc = "idle",
                                       !.wrote     = S1.obs.buf # obs.buf,
                                       !.signalled = krn.evq # <<>>]]} :
               StoreReq(IF S2.eng.pc = "run" THEN juju_loop(S2, answers) ELSE S2)
        /\ UNCHANGED <<backend, romVars, lifeVars>>

(* The kernel completes an outstanding transaction and queues its response *)
(* on the descriptor, whether or not a call is waiting for it              *)
KernelRespond ==
    \E x \in krn.wire, rcode \in Rcodes, length \in ReqLens :
        /\ backend = "juju"
        /\ (rcode # "RCODE_COMPLETE" \/ x.tcode \notin
               {"TCODE_READ_QUADLET_REQUEST", "TCODE_READ_BLOCK_REQUEST"}) => length = 4
        /\ krn' = [krn EXCEPT !.wire = @ \ {x},
                              !.evq  = Append(@, [type    |-> "FW_CDEV_EVENT_RESPONSE",
                                                  rcode   |-> rcode,
                                                  closure |-> x.closure,
                                                  length  |-> length,
                                                  short   |-> /\ rcode = "RCODE_COMPLETE"
                                                              /\ x.tcode = request_tcode(x.len, REQUEST_TYPE_READ)
                                                              /\ length # x.len,
                                                  batch   |-> x.batch])]
        /\ UNCHANGED <<backend, romVars, lifeVars, eng, obs>>

(* The kernel queues an event that is not a response (a bus reset) *)
KernelOtherEvent ==
    /\ backend = "juju" /\ krn.nother < MaxOther
    /\ krn' = [krn EXCEPT !.nother = @ + 1,
                          !.evq    = Append(@, [type    |-> "FW_CDEV_EVENT_BUS_RESET",
                                                rcode   |-> "",
                                                closure |-> 0,
                                                length  |-> 0,
                                                short   |-> FALSE,
                                                batch   |-> 0])]
    /\ UNCHANGED <<backend, romVars, lifeVars, eng, obs>>

(* platform_send_requests on Mac OS X: the call up to its first run of the *)
(* run loop or to its return                                               *)
IOKitSendRequestsUpTo(maxreq, maxbatches) ==
    \E t \in ReqTypes, lens \in {b \in Batches : Len(b) <= maxreq} :
        /\ backend = "iokit" /\ eng.pc = "idle" /\ eng.batch < maxbatches
        /\ devs[1].is_open
        /\ \E S0 \in {enter_send_requests(Eng, t, lens,
                                          platform_send_requests_ncmd(t, Len(lens)))} :
               StoreReq(iokit_loop([S0 EXCEPT !.eng.cmdret = "kIOReturnSuccess"]))
        /\ UNCHANGED <<backend, romVars, lifeVars>>

IOKitSendRequests == IOKitSendRequestsUpTo(MaxReq, MaxBatches)

(* CFRunLoopRunInMode returns: after dispatching one completion, or timed  *)
(* out when the 150 ms passed with no completion to dispatch               *)
IOKitRunLoop ==
    /\ backend = "iokit" /\ eng.pc = "wait"
    /\ \/ \E j \in DOMAIN krn.cmd[eng.t], result \in IOReturns :
            /\ krn.cmd[eng.t][j].exec
            /\ \E S1 \in {iokit_wait(Eng, "kCFRunLoopRunHandledSource", j, result)} :
               \E S2 \in {[S1 EXCEPT !.obs.last =
                             [NoStep EXCEPT !.kind      = "completion",
                                            !.code      = result,
                                            !.stale     = krn.cmd[eng.t][j].batch # eng.batch,
                                            !.closure   = krn.cmd[eng.t][j].k,
                                            !.before    = eng.in_pipeline,
                                            !.after     = S1.eng.in_pipeline,
                                            !.abort     = S1.eng.pc = "idle",
                                            !.wrote     = S1.obs.buf # obs.buf,
                                            !.signalled = TRUE]]} :
                   StoreReq(IF S2.eng.pc = "run" THEN iokit_loop(S2) ELSE S2)
       \/ \E S1 \in {iokit_wait(Eng, "kCFRunLoopRunTimedOut", 0, "kIOReturnSuccess")} :
            StoreReq([S1 EXCEPT !.obs.last =
                         [NoStep EXCEPT !.kind   = "timeout",
                                        !.before = eng.in_pipeline,
                                        !.after  = S1.eng.in_pipeline,
                                        !.abort  = S1.eng.pc = "idle",
                                        !.waited = FORENSIC1394_TIMEOUT_MS]])
    /\ UNCHANGED <<backend, romVars, lifeVars>>

NextReq ==
    \/ JujuSendRequests
    \/ JujuPoll
    \/ KernelRespond
    \/ KernelOtherEvent
    \/ IOKitSendRequests
    \/ IOKitRunLoop

SpecReq == InitReq /\ [][NextReq]_vars

(* The same engine with a kernel that queues events other than responses   *)
(* for as long as the descriptor is open (a bus that keeps resetting).     *)
(* poll and CFRunLoopRunInMode are given 150 ms, so a waiting call always  *)
(* gets its next return from them: weak fairness of the two wait actions.  *)
MaxLiveReq     == 2    \* requests of one batch
MaxLiveBatches == 2    \* batch calls made on the open device
MaxQueued      == 1    \* events the kernel holds queued on the descriptor

LiveJujuSendRequests  == JujuSendRequestsUpTo(MaxLiveReq, MaxLiveBatches)
LiveIOKitSendRequests == IOKitSendRequestsUpTo(MaxLiveReq, MaxLiveBatches)

LiveKernelRespond ==
    /\ Len(krn.evq) < MaxQueued
    /\ KernelRespond

KernelBusResets ==
    /\ backend = "juju" /\ Len(krn.evq) < MaxQueued
    /\ krn' = [krn EXCEPT !.evq = Append(@, [type    |-> "FW_CDEV_EVENT_BUS_RESET",
                                             rcode   |-> "",
                                             closure |-> 0,
                                             length  |-> 0,
                                             short   |-> FALSE,
                                             batch   |-> 0])]
    /\ UNCHANGED <<backend, romVars, lifeVars, eng, obs>>

NextReqLive ==
    \/ LiveJujuSendRequests
    \/ JujuPoll
    \/ LiveKernelRespond
    \/ KernelBusResets
    \/ LiveIOKitSendRequests
    \/ IOKitRunLoop

SpecReqLive ==
    InitReq /\ [][NextReqLive]_vars /\ WF_vars(JujuPoll) /\ WF_vars(IOKitRunLoop)

----------------------------------------------------------------------------
(* One device from its discovery to its destruction: enumeration in any    *)
(* bus generation, open, close, the user-data setter, and batch calls on   *)
(* the device while it is open.  The caller is single-threaded: it makes   *)
(* no other call while a batch call has not returned.                      *)

MaxFrameDevs    == 1    \* devices allocated over one run
MaxFrameReq     == 1    \* requests of one batch
MaxFrameBatches == 1    \* batch calls made
MaxFrameNodes   == 1    \* FireWire device nodes seen by one discovery

UserData == {NULL, "u"}

InitDev ==
    /\ backend \in Backends
    /\ bus     = [b \in Buses |-> forensic1394_alloc]
    /\ devs    = [d \in DevIds |-> NoDev]
    /\ nextdev = 1
    /\ trace   = <<>>
    /\ lastOp  = [Op("alloc", NULL, 0, NULL, NULL, NULL) EXCEPT
                     !.old = <<>>, !.oldcb = NULL, !.oldopen = {}, !.wasopen = FALSE,
                     !.wason = FALSE]
    /\ IdleEngine
    /\ NoRom

Calling == eng.pc = "idle"

(* forensic1394_get_devices without a callback, on a bus whose device     *)
(* nodes can be matched                                                    *)
DevGetDevices ==
    \E b \in Buses, nodes \in SeqsUpTo(NodeAnswers(backend), MaxFrameNodes),
       gen \in 0 .. MaxGeneration :
        /\ Calling
        /\ bus[b].alive
        /\ nextdev + CountOk(nodes) <= MaxFrameDevs + 1
        /\ \E R \in {forensic1394_get_devices(World, backend, b, NULL,
                                               "kIOReturnSuccess", nodes, gen)} :
               /\ Store(Registered(R.w, R.ret, NULL))
               /\ lastOp' = [Op("get_devices", b, 0, NULL, R.ret, R.ndev) EXCEPT
                                 !.perm   = PermSkipped(nodes) > 0,
                                 !.failed = ~DiscoverySucceeded("kIOReturnSuccess", nodes)]
        /\ UNCHANGED <<backend, reqVars, romVars>>

DevOpenDevice  == Calling /\ OpenDevice
DevCloseDevice == Calling /\ CloseDevice
DevDestroy     == Calling /\ Destroy

SetDeviceUserData ==
    \E d \in LiveDevs, u \in UserData :
        /\ Calling
        /\ \E W \in {forensic1394_set_device_user_data(World, d, u)} : Store(W)
        /\ lastOp' = Op("set_device_user_data", devs[d].bus, d, NULL, NULL, NULL)
        /\ UNCHANGED <<backend, reqVars, romVars>>

DevJujuSendRequests  == JujuSendRequestsUpTo(MaxFrameReq, MaxFrameBatches)
DevIOKitSendRequests == IOKitSendRequestsUpTo(MaxFrameReq, MaxFrameBatches)

NextDev ==
    \/ DevGetDevices
    \/ DevOpenDevice
    \/ DevCloseDevice
    \/ SetDeviceUserData
    \/ DevDestroy
    \/ DevJujuSendRequests
    \/ JujuPoll
    \/ KernelRespond
    \/ KernelOtherEvent
    \/ DevIOKitSendRequests
    \/ IOKitRunLoop

SpecDev == InitDev /\ [][NextDev]_vars

----------------------------------------------------------------------------
(* Properties of the request engine *)

OkCodes         == {"RCODE_COMPLETE", "kIOReturnSuccess"}
BusyCodes       == {"RCODE_BUSY", "kIOReturnBusy"}
GenerationCodes == {"RCODE_GENERATION", "kIOFireWireBusReset"}

(* The last wait of the call ended with a completion handed to the batch *)
Applied == obs.last.kind = "completion"

(* That completion retired a request and did not end the batch *)
Retired == ~obs.last.abort /\ obs.last.after = obs.last.before - 1

(* That completion ended the batch with result r *)
Aborted(r) == obs.last.abort /\ eng.pc = "idle" /\ obs.ret = r

(* The last batch call has returned r *)
Returned(r) == eng.pc = "idle" /\ eng.batch > 0 /\ obs.ret = r

LengthChecked == backend = "juju" /\ eng.t = REQUEST_TYPE_READ

(* C3 as stated: for each completion applied to a batch, on both backends, *)
(* an OK response retires the request and the batch continues, a busy      *)
(* response makes the batch return BUSY, a generation-mismatch response    *)
(* makes it return BUS_RESET and any other response code makes it return   *)
(* IO_ERROR.                                                               *)
C3_AsStated ==
    Applied =>
        /\ obs.last.code \in OkCodes => Retired
        /\ obs.last.code \in BusyCodes => Aborted(FORENSIC1394_RESULT_BUSY)
        /\ obs.last.code \in GenerationCodes => Aborted(FORENSIC1394_RESULT_BUS_RESET)
        /\ obs.last.code \notin OkCodes \cup BusyCodes \cup GenerationCodes
               => Aborted(FORENSIC1394_RESULT_IO_ERROR)

(* C3 amended: an OK response retires the request and the batch continues, *)
(* except that on Linux an OK response to a read whose length differs from *)
(* the request's makes the batch return IO_ERROR; busy gives BUSY;         *)
(* generation mismatch gives BUS_RESET; any other status gives IO_ERROR,   *)
(* except that on IOKit the completion status kIOReturnTimeout gives       *)
(* IO_TIMEOUT.                                                             *)
C3_CompletionClassification ==
    Applied =>
        /\ (obs.last.code \in OkCodes /\ (LengthChecked => obs.last.lenok)) => Retired
        /\ (obs.last.code \in OkCodes /\ LengthChecked /\ ~obs.last.lenok)
               => Aborted(FORENSIC1394_RESULT_IO_ERROR)
        /\ obs.last.code \in BusyCodes => Aborted(FORENSIC1394_RESULT_BUSY)
        /\ obs.last.code \in GenerationCodes => Aborted(FORENSIC1394_RESULT_BUS_RESET)
        /\ obs.last.code = "kIOReturnTimeout" => Aborted(FORENSIC1394_RESULT_IO_TIMEOUT)
        /\ obs.last.code \notin OkCodes \cup BusyCodes \cup GenerationCodes
                                        \cup {"kIOReturnTimeout"}
               => Aborted(FORENSIC1394_RESULT_IO_ERROR)

C3_Witness ==
    /\ backend = "iokit"
    /\ Applied /\ obs.last.code = "kIOReturnTimeout"
    /\ obs.last.before = 2
    /\ Aborted(FORENSIC1394_RESULT_IO_TIMEOUT)

(* C4: a batch call returns SUCCESS only if every one of its nreq requests *)
(* was submitted and each received an OK completion of its own (for reads  *)
(* with its buffer filled by it); SUCCESS is never returned while a        *)
(* request of the batch is unsent or still executing at the backend.       *)
C4_SuccessOnlyWhenAllCompleted ==
    Returned(FORENSIC1394_RESULT_SUCCESS) =>
        /\ obs.sent = 0 .. eng.nreq - 1
        /\ obs.okd  = 0 .. eng.nreq - 1
        /\ eng.t = REQUEST_TYPE_READ =>
               \A k \in 0 .. eng.nreq - 1 : obs.buf[k] = Tag(eng.batch, k)
        /\ \A x \in krn.wire : x.batch # eng.batch
        /\ \A t \in ReqTypes : \A j \in DOMAIN krn.cmd[t] :
               ~(krn.cmd[t][j].exec /\ krn.cmd[t][j].batch = eng.batch)

(* C5: if a request of the batch is in flight and the backend signals no   *)
(* completion within the 150 ms wait, the call returns IO_TIMEOUT instead  *)
(* of waiting further.                                                     *)
C5_NoCompletionTimesOut ==
    (obs.last.kind # "none" /\ ~obs.last.signalled /\ obs.last.before > 0) =>
        /\ Returned(FORENSIC1394_RESULT_IO_TIMEOUT)
        /\ obs.last.waited = FORENSIC1394_TIMEOUT_MS

C5_Witness ==
    /\ obs.last.kind = "timeout" /\ ~obs.last.signalled
    /\ obs.last.before > 0
    /\ obs.sent # {}
    /\ obs.last.waited = FORENSIC1394_TIMEOUT_MS
    /\ Returned(FORENSIC1394_RESULT_IO_TIMEOUT)

(* C6: for every read batch, a payload copied into the caller buffer of    *)
(* request k is the response to request k of the same batch: the index a   *)
(* completion carries is below nreq, no payload is written outside the     *)
(* caller's buffers, and a response to a request of an earlier batch is    *)
(* neither copied into a buffer of this batch nor counted as one of its    *)
(* completions.                                                            *)
C6_PayloadReachesOwnBuffer ==
    (eng.batch > 0 /\ eng.t = REQUEST_TYPE_READ) =>
        /\ \A k \in 0 .. MaxReq - 1 :
               obs.buf[k] # NoTag => (k < eng.nreq /\ obs.buf[k] = Tag(eng.batch, k))
        /\ ~obs.wild
        /\ Applied => (~obs.last.stale /\ obs.last.closure < eng.nreq)

Min(a, b) == IF a < b THEN a ELSE b

Depth ==
    IF backend = "juju" THEN 1
    ELSE IF eng.t = REQUEST_TYPE_READ THEN Min(eng.nreq, 4) ELSE Min(eng.nreq, 1)

C15_EveryBatchReturns == (eng.pc = "wait") ~> (eng.pc = "idle")

(* On Mac OS X every return of the run loop retires a request or ends the *)
(* call, so the call returns.                                             *)
C15_IOKitReturns == (backend = "iokit" /\ eng.pc = "wait") ~> (eng.pc = "idle")

----------------------------------------------------------------------------
(* Configuration ROM parsing (csr.c, csr.h).                               *)
(*                                                                         *)
(* A quadlet is its four bytes, most significant first; the ROM is the     *)
(* array dev->rom[0 .. 255].  A read at an index past the array returns    *)
(* whatever the memory after it holds (mem.beyond).  Every operator takes  *)
(* and returns P = [dev, reads]: the device fields and the set of ROM      *)
(* indices read so far.                                                    *)

FORENSIC1394_CSR_SZ      == 256
FORENSIC1394_DEV_NAME_SZ == 64

CSR_VENDOR_KEY    == 3
CSR_MODEL_KEY     == 23
CSR_DESC_LEAF_KEY == 129

Bytes        == 0 .. 255
ZeroQuad     == <<0, 0, 0, 0>>
CSR_1394_BUS == <<49, 51, 57, 52>>

CSR_NQUAD(x) == x[2]

(* size_t arithmetic: differences wrap modulo the word size, which stands  *)
(* far above every index and buffer size used here                         *)
SIZE_MOD == 2 ^ 30

MIN(a, b) == IF a < b THEN a ELSE b

RomAt(mem, k) == IF k < FORENSIC1394_CSR_SZ THEN mem.rom[k] ELSE mem.beyond

Reading(P, k) == [P EXCEPT !.reads = @ \cup {k}]

ZeroName(maxb) == [i \in 1 .. maxb |-> 0]

(* get_length: the value returned *)
get_length(mem, diroff) ==
    IF diroff > 255 THEN 0
    ELSE LET nquad == CSR_NQUAD(mem.rom[diroff])
         IN  IF diroff + nquad > 255 THEN 0 ELSE nquad + 1

(* get_length: the index it reads *)
get_length_reads(P, diroff) == IF diroff > 255 THEN P ELSE Reading(P, diroff)

copy_text_lsb_first(mem, P, offset, name, numb) ==
    [P EXCEPT !.reads = @ \cup {offset + 3 + (i \div 4) : i \in 0 .. numb - 1},
              !.dev[name] = [b \in DOMAIN @ |->
                                IF b - 1 < numb
                                THEN RomAt(mem, offset + 3 + ((b - 1) \div 4))[4 - ((b - 1) % 4)]
                                ELSE @[b]]]

(* The copy loop of parse_text_leaf over bytes 0 .. numb - 1: byte i comes *)
(* from quadlet i / 4 after the two specifier quadlets                     *)
copy_text(mem, P, offset, name, numb) ==
    [P EXCEPT !.reads = @ \cup {offset + 3 + (i \div 4) : i \in 0 .. numb - 1},
              !.dev[name] = [b \in DOMAIN @ |->
                                IF b - 1 < numb
                                THEN RomAt(mem, offset + 3 + ((b - 1) \div 4))[((b - 1) % 4) + 1]
                                ELSE @[b]]]

parse_text_leaf(mem, P, offset, name, maxb) ==
    LET P0   == [P EXCEPT !.dev[name] = ZeroName(maxb)]
        numq == get_length(mem, offset)
        P1   == get_length_reads(P0, offset)
        P2   == Reading(P1, offset + 1)
        P3   == Reading(P2, offset + 2)
        numb == MIN(((numq - 3) * 4) % SIZE_MOD, maxb - 1)
    IN  IF numq = 0 THEN P1
        ELSE IF RomAt(mem, offset + 1) # ZeroQuad THEN P2
        ELSE IF RomAt(mem, offset + 2) # ZeroQuad THEN P3
        ELSE copy_text(mem, P3, offset, name, numb)

(* The search loop of parse_key from entry i: the record of the index the  *)
(* loop stopped at and the device, with the value copied if the key is met *)
RECURSIVE find_key(_, _, _, _, _, _, _)
find_key(mem, P, diroff, key, field, i, nq) ==
    IF i < nq
    THEN LET entry == mem.rom[diroff + i]
             P1    == Reading(P, diroff + i)
         IN  IF CSR_KEY(entry) = key
             THEN [i |-> i, P |-> [P1 EXCEPT !.dev[field] = CSR_VALUE(entry)]]
             ELSE find_key(mem, P1, diroff, key, field, i + 1, nq)
    ELSE [i |-> i, P |-> P]

parse_key(mem, P, diroff, key, field, name, buflen) ==
    LET nq == get_length(mem, diroff)
        F  == find_key(mem, get_length_reads(P, diroff), diroff, key, field, 1, nq)
        i  == F.i + 1
    IN  IF i < nq
        THEN LET P1 == Reading(F.P, diroff + i)
             IN  IF CSR_KEY(mem.rom[diroff + i]) = CSR_DESC_LEAF_KEY
                 THEN parse_text_leaf(mem, Reading(P1, diroff + i),
                                      diroff + i + CSR_VALUE(mem.rom[diroff + i]),
                                      name, buflen)
                 ELSE P1
        ELSE F.P

RECURSIVE Pow2(_)
Pow2(n) == IF n = 0 THEN 1 ELSE 2 * Pow2(n - 1)

common_parse_csr_shifts_one(mem, P) ==
    LET buslen == get_length(mem, 0)
        P0     == Reading(get_length_reads(P, 0), 1)
        P1     == IF mem.rom[1] = CSR_1394_BUS
                  THEN [Reading(P0, 2) EXCEPT !.dev.max_req = Pow2(mem.rom[2][3] \div 16)]
                  ELSE [P0 EXCEPT !.dev.max_req = 512]
        P2     == [Reading(Reading(P1, 3), 4) EXCEPT !.dev.guid = <<mem.rom[3], mem.rom[4]>>]
        P3     == parse_key(mem, P2, buslen, CSR_VENDOR_KEY, "vendor_id", "vendor_name",
                            FORENSIC1394_DEV_NAME_SZ)
    IN  IF buslen < 5 THEN get_length_reads(P, 0)
        ELSE parse_key(mem, P3, buslen, CSR_MODEL_KEY, "product_id", "product_name",
                       FORENSIC1394_DEV_NAME_SZ)

common_parse_csr(mem, P) ==
    LET buslen == get_length(mem, 0)
        P0     == Reading(get_length_reads(P, 0), 1)
        P1     == IF mem.rom[1] = CSR_1394_BUS
                  THEN [Reading(P0, 2) EXCEPT !.dev.max_req = 2 * Pow2(mem.rom[2][3] \div 16)]
                  ELSE [P0 EXCEPT !.dev.max_req = 512]
        P2     == [Reading(Reading(P1, 3), 4) EXCEPT !.dev.guid = <<mem.rom[3], mem.rom[4]>>]
        P3     == parse_key(mem, P2, buslen, CSR_VENDOR_KEY, "vendor_id", "vendor_name",
                            FORENSIC1394_DEV_NAME_SZ)
    IN  IF buslen < 5 THEN get_length_reads(P, 0)
        ELSE parse_key(mem, P3, buslen, CSR_MODEL_KEY, "product_id", "product_name",
                       FORENSIC1394_DEV_NAME_SZ)

----------------------------------------------------------------------------
(* Device construction on Mac OS X (platform_update_device_list): the      *)
(* device is malloc'ed, so its fields hold whatever the heap held; the ROM *)
(* is copied into it; common_parse_csr runs.                               *)

(* What malloc can hand back in one device field *)
HeapInts  == {0, 512, 23130}
HeapNames == {ZeroName(FORENSIC1394_DEV_NAME_SZ),
              [i \in 1 .. FORENSIC1394_DEV_NAME_SZ |-> 90]}
HeapGuids == {<<ZeroQuad, ZeroQuad>>, <<ZeroQuad, <<90, 90, 90, 90>>>>}

(* The ROMs tried: a bus information block of BusLen + 1 quadlets, then a  *)
(* root directory with a vendor entry, a descriptor-leaf pointer and a     *)
(* model entry; the pointer leads to a leaf whose header announces         *)
(* LeafLen quadlets, whose two specifier quadlets are zero or not, and     *)
(* which is followed by text.  Everything else is zero.                    *)
BusLens   == {0, 3, 4}
LeafPtrs  == {3, 245, 246, 247, 248, 249}
LeafLens  == {0, 1, 2, 3, 4}
TextQuad  == <<65, 66, 67, 68>>

Rom(buslen, busname, ptr, leaflen, spec) ==
    LET root == buslen + 1
        leaf == root + 2 + ptr
    IN  [k \in 0 .. FORENSIC1394_CSR_SZ - 1 |->
            IF k = 0 THEN <<buslen, buslen, 0, 0>>
            ELSE IF k = 1 THEN busname
            ELSE IF k = 2 /\ buslen >= 2 THEN <<0, 0, 128, 0>>
            ELSE IF k = 3 /\ buslen >= 3 THEN <<0, 17, 34, 51>>
            ELSE IF k = 4 /\ buslen >= 4 THEN <<68, 85, 102, 119>>
            ELSE IF k = root THEN <<0, 3, 0, 0>>
            ELSE IF k = root + 1 THEN <<CSR_VENDOR_KEY, 0, 17, 34>>
            ELSE IF k = root + 2 THEN <<CSR_DESC_LEAF_KEY, 0, 0, ptr>>
            ELSE IF k = root + 3 THEN <<CSR_MODEL_KEY, 0, 51, 68>>
            ELSE IF k = leaf THEN <<0, leaflen, 0, 0>>
            ELSE IF k \in {leaf + 1, leaf + 2} THEN spec
            ELSE IF k > leaf THEN TextQuad
            ELSE ZeroQuad]

(* The same with the model entry between the vendor entry and the         *)
(* descriptor-leaf pointer, under a bus information block of five quadlets *)
RomModelLeaf(ptr, leaflen, spec) ==
    LET root == 5
        leaf == root + 3 + ptr
    IN  [k \in 0 .. FORENSIC1394_CSR_SZ - 1 |->
            IF k = 0 THEN <<4, 4, 0, 0>>
            ELSE IF k = 1 THEN CSR_1394_BUS
            ELSE IF k = 2 THEN <<0, 0, 128, 0>>
            ELSE IF k = 3 THEN <<0, 17, 34, 51>>
            ELSE IF k = 4 THEN <<68, 85, 102, 119>>
            ELSE IF k = root THEN <<0, 3, 0, 0>>
            ELSE IF k = root + 1 THEN <<CSR_VENDOR_KEY, 0, 17, 34>>
            ELSE IF k = root + 2 THEN <<CSR_MODEL_KEY, 0, 51, 68>>
            ELSE IF k = root + 3 THEN <<CSR_DESC_LEAF_KEY, 0, 0, ptr>>
            ELSE IF k = leaf THEN <<0, leaflen, 0, 0>>
            ELSE IF k \in {leaf + 1, leaf + 2} THEN spec
            ELSE IF k > leaf THEN TextQuad
            ELSE ZeroQuad]

(* A minimal ROM: a bus information block of five quadlets announcing a   *)
(* maximum request of 2 << 10 bytes, GUID 0x0011223344556677, and the      *)
(* quadlet 0x03000123 at index 5                                           *)
MinimalRom ==
    [k \in 0 .. FORENSIC1394_CSR_SZ - 1 |->
        IF k = 0 THEN <<4, 4, 0, 0>>
        ELSE IF k = 1 THEN CSR_1394_BUS
        ELSE IF k = 2 THEN <<0, 0, 160, 0>>
        ELSE IF k = 3 THEN <<0, 17, 34, 51>>
        ELSE IF k = 4 THEN <<68, 85, 102, 119>>
        ELSE IF k = 5 THEN <<3, 0, 1, 35>>
        ELSE ZeroQuad]

Roms ==
    {Rom(n, nm, ptr, ll, sp) : n \in BusLens, nm \in {CSR_1394_BUS, ZeroQuad},
                               ptr \in LeafPtrs, ll \in LeafLens,
                               sp \in {ZeroQuad, TextQuad}}
        \cup {RomModelLeaf(ptr, ll, sp) : ptr \in LeafPtrs, ll \in LeafLens,
                                          sp \in {ZeroQuad, TextQuad}}
        \cup {MinimalRom}

HeapDev(n, nm, g) ==
    [max_req      |-> n,
     guid         |-> g,
     vendor_id    |-> n,
     vendor_name  |-> nm,
     product_id   |-> n,
     product_name |-> nm]

(* A second device allocated for a node with the same ROM: the memory it   *)
(* is given, and the memory after its ROM, held zeros or held junk         *)
TwinMems ==
    {[dev    |-> HeapDev(0, ZeroName(FORENSIC1394_DEV_NAME_SZ), <<ZeroQuad, ZeroQuad>>),
      beyond |-> ZeroQuad],
     [dev    |-> HeapDev(23130, [i \in 1 .. FORENSIC1394_DEV_NAME_SZ |-> 90],
                         <<ZeroQuad, <<90, 90, 90, 90>>>>),
      beyond |-> TextQuad]}

InitCsr ==
    /\ backend = "iokit"
    /\ bus     = [b \in Buses |-> forensic1394_alloc]
    /\ devs    = [d \in DevIds |-> NoDev]
    /\ nextdev = 1
    /\ trace   = <<>>
    /\ lastOp  = [Op("alloc", NULL, 0, NULL, NULL, NULL) EXCEPT
                     !.old = <<>>, !.oldcb = NULL, !.oldopen = {}, !.wasopen = FALSE,
                     !.wason = FALSE]
    /\ NoEngine
    /\ res = [pc |-> "off"]
    /\ \E rom \in Roms, beyond \in {ZeroQuad, TextQuad},
          n \in HeapInts, nm \in HeapNames, g \in HeapGuids, twin \in TwinMems :
          csr = [pc     |-> "copied",
                 rom    |-> rom,
                 beyond |-> beyond,
                 reads  |-> {},
                 dev    |-> HeapDev(n, nm, g),
                 was    |-> HeapDev(n, nm, g),
                 twin   |-> twin]

(* common_parse_csr(fdev), for the device and for its twin *)
ParseCsr ==
    /\ csr.pc = "copied"
    /\ \E P \in {common_parse_csr(csr, [dev |-> csr.dev, reads |-> {}])},
          T \in {common_parse_csr([rom |-> csr.rom, beyond |-> csr.twin.beyond],
                                  [dev |-> csr.twin.dev, reads |-> {}])} :
          csr' = [csr EXCEPT !.pc = "parsed", !.dev = P.dev, !.reads = P.reads,
                             !.twin.dev = T.dev]
    /\ UNCHANGED <<backend, lifeVars, reqVars, res>>

NextCsr == ParseCsr

SpecCsr == InitCsr /\ [][NextCsr]_vars

IsEmptyName(name) == name[1] = 0

(* C19: parsing a ROM whose bus-information length is less than 5 leaves   *)
(* the device with max_req = 512, empty product and vendor names and       *)
(* GUID 0.                                                                 *)
C19_ShortBusInfoDefaults ==
    (csr.pc = "parsed" /\ get_length(csr, 0) < 5) =>
        /\ csr.dev.max_req = 512
        /\ IsEmptyName(csr.dev.product_name)
        /\ IsEmptyName(csr.dev.vendor_name)
        /\ csr.dev.guid = <<ZeroQuad, ZeroQuad>>

(* C20: for every ROM content, CSR parsing (get_length, parse_key,         *)
(* parse_text_leaf) never reads a ROM quadlet at an index greater than     *)
(* 255, also when a descriptor-leaf pointer targets an offset near the end *)
(* of the ROM or a leaf whose length field is 0, 1 or 2.                   *)
C20_ReadsInsideRom ==
    csr.pc = "parsed" => \A k \in csr.reads : k <= 255

(* The entries of the root directory, which starts at quadlet buslen: its *)
(* first quadlet is the directory's length, the entries follow it          *)
RootEntries(rom) ==
    LET buslen == rom[0][2] + 1
    IN  IF buslen + rom[buslen][2] > 255 THEN {}
        ELSE buslen + 1 .. buslen + rom[buslen][2]

HasKey(rom, key) == \E k \in RootEntries(rom) : rom[k][1] = key

FirstWithKey(rom, key) ==
    CHOOSE k \in RootEntries(rom) :
        rom[k][1] = key /\ \A j \in RootEntries(rom) : rom[j][1] = key => k <= j

Value24(q) == q[2] * 65536 + q[3] * 256 + q[4]

C21_WitnessRootDirectory ==
    /\ csr.pc = "parsed" /\ csr.rom # MinimalRom
    /\ csr.dev.vendor_id = 4386 /\ csr.dev.product_id = 13124
    /\ csr.was.vendor_id = 0

(* C22: CSR parsing is a pure function of the ROM: two devices whose ROMs *)
(* are identical end with identical (product_id, product_name, vendor_id,  *)
(* vendor_name, guid, max_req), whatever those fields held before parsing. *)
C22_ParseIsFunctionOfRom ==
    csr.pc = "parsed" => csr.dev = csr.twin.dev

(* The same for ROMs in which the parser assigns every field: a bus        *)
(* information block of five quadlets or more, both keys present and each  *)
(* followed by a descriptor-leaf pointer to a leaf read inside the ROM     *)
C22_AssignedFieldsAgree ==
    csr.pc = "parsed" =>
        /\ csr.rom[0][2] + 1 >= 5 =>
              /\ csr.dev.max_req = csr.twin.dev.max_req
              /\ csr.dev.guid = csr.twin.dev.guid
        /\ (csr.rom[0][2] + 1 >= 5 /\ HasKey(csr.rom, 3)) =>
              csr.dev.vendor_id = csr.twin.dev.vendor_id
        /\ (csr.rom[0][2] + 1 >= 5 /\ HasKey(csr.rom, 23)) =>
              csr.dev.product_id = csr.twin.dev.product_id

----------------------------------------------------------------------------
(* The array an enumeration returned, without its NULL sentinel.  Device   *)
(* ids are handed out in the order discovery meets the nodes, so within    *)
(* one enumeration the lower id is the node met first.                     *)
ReturnedArray(b) ==
    IF bus[b].dev = NULL THEN <<>> ELSE SubSeq(bus[b].dev, 1, Len(bus[b].dev) - 1)

InDiscoveryOrder(arr) ==
    \A i, j \in 1 .. Len(arr) : i < j => arr[i] < arr[j]

InReverseDiscoveryOrder(arr) ==
    \A i, j \in 1 .. Len(arr) : i < j => arr[i] > arr[j]

----------------------------------------------------------------------------
SentToPlatform == \E i \in 1 .. Len(trace) : trace[i].e = "platform_send_requests"

(* C24: no transaction is submitted to the backend for a device that is   *)
(* not open: single and vectored read and write on a device whose is_open  *)
(* flag is false trip an assertion instead of reaching                     *)
(* platform_send_requests.                                                 *)
C24_ClosedDeviceNeverReachesPlatform ==
    lastOp.op \in IoFunctions =>
        /\ SentToPlatform <=> lastOp.wasopen
        /\ lastOp.aborted <=> ~lastOp.wasopen
        /\ SentToPlatform => devs[lastOp.dev].handle

C24_Witness ==
    /\ lastOp.op = "forensic1394_write_device_v"
    /\ lastOp.aborted /\ ~SentToPlatform
    /\ devs[lastOp.dev].opens = 1 /\ devs[lastOp.dev].closes = 1
    /\ \E d \in LiveDevs : devs[d].is_open

----------------------------------------------------------------------------
(* C25: for a read, an OK completion whose payload length differs from the *)
(* requested length of the request it answers makes the batch return       *)
(* IO_ERROR and the caller buffer is not written; for writes only the      *)
(* response code is inspected.                                             *)
C25_ReadLengthMismatchIsError ==
    Applied =>
        /\ (eng.t = REQUEST_TYPE_READ /\ obs.last.code \in OkCodes /\ ~obs.last.own)
               => (Aborted(FORENSIC1394_RESULT_IO_ERROR) /\ ~obs.last.wrote)
        /\ (eng.t = REQUEST_TYPE_WRITE /\ obs.last.code \in OkCodes) => Retired

(* The same for a completion that answers a request of the batch in        *)
(* progress                                                                *)
C25_OwnBatchLengthMismatchIsError ==
    (Applied /\ ~obs.last.stale) =>
        /\ (eng.t = REQUEST_TYPE_READ /\ obs.last.code \in OkCodes /\ ~obs.last.own)
               => (Aborted(FORENSIC1394_RESULT_IO_ERROR) /\ ~obs.last.wrote)
        /\ (eng.t = REQUEST_TYPE_WRITE /\ obs.last.code \in OkCodes) => Retired

C25_OwnBatchMismatchSeen ==
    /\ Applied /\ ~obs.last.stale /\ eng.t = REQUEST_TYPE_READ
    /\ obs.last.code \in OkCodes /\ ~obs.last.own
    /\ Aborted(FORENSIC1394_RESULT_IO_ERROR)


----------------------------------------------------------------------------
(* Result strings (common.c).  The lookup is a pure function of the code;  *)
(* it is applied to every integer of a range around the enumeration.       *)

MaxResult == 60    \* the codes asked about are -MaxResult .. MaxResult

FORENSIC1394_RESULT_END == -7

result_str ==
    <<"Success",
      "General error",
      "Bus reset has occurred",
      "Insufficient permisisons",
      "Device is busy",
      "General I/O error",
      "Bad I/O request size",
      "I/O timeout">>

(* result_str[-r] is entry -r + 1 of the sequence *)
forensic1394_get_result_str(r) ==
    IF r <= 0 /\ r > FORENSIC1394_RESULT_END
    THEN result_str[-r + 1]
    ELSE NULL

InitStr ==
    /\ backend \in Backends
    /\ bus     = [b \in Buses |-> forensic1394_alloc]
    /\ devs    = [d \in DevIds |-> NoDev]
    /\ nextdev = 1
    /\ trace   = <<>>
    /\ lastOp  = [Op("alloc", NULL, 0, NULL, NULL, NULL) EXCEPT
                     !.old = <<>>, !.oldcb = NULL, !.oldopen = {}, !.wasopen = FALSE,
                     !.wason = FALSE]
    /\ NoEngine
    /\ csr = [pc |-> "off"]
    /\ \E r \in -MaxResult .. MaxResult : res = [pc |-> "asked", r |-> r]

GetResultStr ==
    /\ res.pc = "asked"
    /\ res' = [pc |-> "answered", r |-> res.r, str |-> forensic1394_get_result_str(res.r)]
    /\ UNCHANGED <<backend, lifeVars, reqVars, csr>>

NextStr == GetResultStr

SpecStr == InitStr /\ [][NextStr]_vars

(* C28: forensic1394_get_result_str returns a description for each of the  *)
(* eight codes 0, -1, ..., -7 (-7, IO_TIMEOUT, included) and NULL for      *)
(* every other integer, the positive ones included.                        *)
C28_ResultStrings ==
    res.pc = "answered" =>
        /\ res.r \in -7 .. 0 => res.str # NULL
        /\ res.r \notin -7 .. 0 => res.str = NULL

(* What the code does: the seven codes above the sentinel have their       *)
(* description, every other integer has none                               *)
C28_CodesAboveSentinel ==
    res.pc = "answered" =>
        /\ res.r \in -6 .. 0 => res.str = result_str[-res.r + 1]
        /\ res.r \notin -6 .. 0 => res.str = NULL

C28_TimeoutAsked ==
    /\ res.pc = "answered"
    /\ res.r = FORENSIC1394_RESULT_IO_TIMEOUT

----------------------------------------------------------------------------
(* Neither backend compares a length with max_req: what is too large is    *)
(* decided by the platform.  On Linux the kernel refuses the submission    *)
(* (ioctl fails with EIO).  On Mac OS X the result of Submit is dropped,   *)
(* so a rejection reaches the batch as the status of the request's         *)
(* completion; that status is none of success, busy, timeout and bus       *)
(* reset, which have their own meaning, so it is one of the statuses       *)
(* kIOReturnError stands for (the default branch of convert_ioreturn).     *)

(* C26: a request whose length the platform rejects as too large makes the *)
(* batch return IO_SIZE, on both backends, and no request after it is      *)
(* submitted.                                                              *)
C26_SizeRejectionIsIoSize ==
    /\ (backend = "juju" /\ Returned(FORENSIC1394_RESULT_IO_SIZE))
           => (eng.i < eng.nreq /\ obs.sent = 0 .. eng.i - 1)
    /\ (backend = "iokit" /\ Applied /\ obs.last.code = "kIOReturnError")
           => (/\ Aborted(FORENSIC1394_RESULT_IO_SIZE)
               /\ \A k \in obs.sent : k <= obs.last.closure)

(* The Linux half: a batch returns IO_SIZE exactly from a refused          *)
(* submission, the refused request is the first one not submitted and all  *)
(* before it were; Mac OS X never returns IO_SIZE                          *)
C26_LinuxRefusedSubmission ==
    Returned(FORENSIC1394_RESULT_IO_SIZE) =>
        /\ backend = "juju"
        /\ eng.i < eng.nreq
        /\ obs.sent = 0 .. eng.i - 1

C26_LinuxRefusalSeen ==
    /\ Returned(FORENSIC1394_RESULT_IO_SIZE)
    /\ eng.i > 0
    /\ eng.i + 1 < eng.nreq


----------------------------------------------------------------------------
(* C27: on Mac OS X, whenever no batch call is in progress (before the     *)
(* first call and after every return, whatever the result), none of the    *)
(* device's read and write commands is executing: those still executing    *)
(* when the loop is left are cancelled before the call returns.            *)
C27_NoCommandExecutingAfterReturn ==
    (backend = "iokit" /\ eng.pc = "idle") =>
        \A t \in ReqTypes : \A j \in DOMAIN krn.cmd[t] : ~krn.cmd[t][j].exec

(* A batch ended by a failed completion while other commands were still    *)
(* executing has returned                                                  *)
C27_Witness ==
    /\ backend = "iokit"
    /\ Applied
    /\ obs.last.abort
    /\ eng.pc = "idle"
    /\ obs.last.after >= 2


----------------------------------------------------------------------------
ResultCodes ==
    {FORENSIC1394_RESULT_SUCCESS, FORENSIC1394_RESULT_OTHER_ERROR,
     FORENSIC1394_RESULT_BUS_RESET, FORENSIC1394_RESULT_NO_PERM,
     FORENSIC1394_RESULT_BUSY, FORENSIC1394_RESULT_IO_ERROR,
     FORENSIC1394_RESULT_IO_SIZE, FORENSIC1394_RESULT_IO_TIMEOUT}

(* C29: the result of every enable_sbp2, open and read or write call that  *)
(* returns, and every negative value stored in the count out-parameter of  *)
(* get_devices, is one of 0, -1, ..., -7; no call returns a positive       *)
(* value.                                                                  *)
C29_ResultCodesClosed ==
    /\ (lastOp.op \in {"enable_sbp2", "open_device"}) => lastOp.ret \in ResultCodes
    /\ (lastOp.op \in IoFunctions /\ ~lastOp.aborted) => lastOp.ret \in ResultCodes
    /\ (lastOp.op = "get_devices" /\ lastOp.ndev < 0) => lastOp.ndev \in ResultCodes

(* The same without the enable_sbp2 call made on a bus whose SBP-2         *)
(* directory is already enabled                                            *)
C29_ResultCodesButAlreadyEnabled ==
    /\ (lastOp.op = "enable_sbp2" /\ ~lastOp.wason) => lastOp.ret \in ResultCodes
    /\ (lastOp.op = "open_device") => lastOp.ret \in ResultCodes
    /\ (lastOp.op \in IoFunctions /\ ~lastOp.aborted) => lastOp.ret \in ResultCodes
    /\ (lastOp.op = "get_devices" /\ lastOp.ndev < 0) => lastOp.ndev \in ResultCodes
    /\ (eng.pc = "idle" /\ eng.batch > 0) => obs.ret \in ResultCodes


----------------------------------------------------------------------------
C30_WitnessEmpty ==
    /\ lastOp.op = "get_devices"
    /\ bus[lastOp.bus].ndev = 0
    /\ lastOp.ret = <<0>>
    /\ lastOp.old # <<>>


----------------------------------------------------------------------------
(* C31: on both backends every device in the array get_devices returns     *)
(* has the enumerating bus as its bus and is not open when the call        *)
(* returns.                                                                *)
C31_ReturnedDevicesClosedOnBus ==
    lastOp.op = "get_devices" =>
        \A i \in 1 .. Len(lastOp.ret) - 1 :
            /\ devs[lastOp.ret[i]].bus = lastOp.bus
            /\ ~devs[lastOp.ret[i]].is_open
            /\ devs[lastOp.ret[i]].opens = 0

(* An enumeration that returns devices, made while a device of the         *)
(* previous list was open                                                  *)
C31_Witness ==
    /\ lastOp.op = "get_devices"
    /\ backend = "iokit"
    /\ Len(lastOp.ret) >= 3
    /\ lastOp.oldopen # {}

C31_WitnessLinux ==
    /\ lastOp.op = "get_devices"
    /\ backend = "juju"
    /\ Len(lastOp.ret) >= 3
    /\ lastOp.oldopen # {}


----------------------------------------------------------------------------
DiscoveryFields(d) == <<devs[d].generation, devs[d].node_id, devs[d].bus>>

C32_WitnessCommand ==
    /\ backend = "iokit"
    /\ devs[1].state = "live"
    /\ devs[1].found[1] = 1
    /\ devs[1].user_data = "u"
    /\ \E t \in ReqTypes : \E j \in DOMAIN krn.cmd[t] : krn.cmd[t][j].exec


----------------------------------------------------------------------------
QuadletCodes == {"TCODE_READ_QUADLET_REQUEST", "TCODE_WRITE_QUADLET_REQUEST"}
BlockCodes   == {"TCODE_READ_BLOCK_REQUEST", "TCODE_WRITE_BLOCK_REQUEST"}
ReadCodes    == {"TCODE_READ_QUADLET_REQUEST", "TCODE_READ_BLOCK_REQUEST"}
WriteCodes   == {"TCODE_WRITE_QUADLET_REQUEST", "TCODE_WRITE_BLOCK_REQUEST"}

(* C33: every request handed to the kernel has a QUADLET transaction code  *)
(* exactly when its length is 4 and a BLOCK code for any other length, a   *)
(* read code when the batch is a read and a write code when it is a write. *)
C33_TransactionCode ==
    \A x \in krn.wire :
        /\ x.tcode \in QuadletCodes <=> x.len = 4
        /\ x.tcode \in BlockCodes <=> x.len # 4
        /\ x.tcode \in ReadCodes <=> x.t = REQUEST_TYPE_READ
        /\ x.tcode \in WriteCodes <=> x.t = REQUEST_TYPE_WRITE

(* A quadlet read is outstanding *)
C33_Witness ==
    \E x \in krn.wire : x.len = 4 /\ x.t = REQUEST_TYPE_READ

C33_WitnessBlockWrite ==
    \E x \in krn.wire : x.len = 8 /\ x.t = REQUEST_TYPE_WRITE


----------------------------------------------------------------------------
(* C34: the requests of a batch are submitted in the order of the caller's *)
(* array, request i + 1 never before request i and none twice: at any      *)
(* moment the submissions made so far are requests 0, 1, ..., i - 1 in     *)
(* that order.                                                             *)
C34_SubmittedInOrder ==
    eng.batch > 0 =>
        /\ Len(obs.order) = eng.i
        /\ eng.i <= eng.nreq
        /\ \A n \in 1 .. Len(obs.order) : obs.order[n] = n - 1

(* All three requests of a batch have been submitted, the last one after   *)
(* a completion made room for it                                           *)
C34_Witness ==
    /\ eng.batch > 0
    /\ Len(obs.order) = MaxReq
    /\ Applied

----------------------------------------------------------------------------
(* C35: after a successful enable of SBP-2 the local node's unit directory *)
(* holds the thirteen key/value pairs 0x12 -> 0x00609e, 0x13 -> 0x010483,  *)
(* 0x21 -> 0x000001, 0x3a -> 0x000a08, 0x3e -> 0x004c10, 0x38 -> 0x00609e, *)
(* 0x39 -> 0x0104d8, 0x3b -> 0x000000, 0x3c -> 0x0a2700, 0x54 -> 0x004000, *)
(* 0x3d -> 0x000003, 0x14 -> 0x0e0000, 0x17 -> 0x000021 in that order:     *)
(* Linux hands the kernel the header quadlet, whose high 16 bits are 13,   *)
(* followed by those entries, and IOKit adds the entries one by one        *)
(* without the header.                                                     *)
Sbp2Pairs ==
    << <<18, 24734>>, <<19, 66691>>, <<33, 1>>, <<58, 2568>>, <<62, 19472>>,
       <<56, 24734>>, <<57, 66776>>, <<59, 0>>, <<60, 665344>>, <<84, 16384>>,
       <<61, 3>>, <<20, 917504>>, <<23, 33>> >>

EnabledNow ==
    /\ lastOp.op = "enable_sbp2"
    /\ lastOp.ret = FORENSIC1394_RESULT_SUCCESS

C35_UnitDirectoryEntries ==
    EnabledNow =>
        IF backend = "juju"
        THEN \E a \in {bus[lastOp.bus].add_desc} :
                 /\ a.length = Len(Sbp2Pairs) + 1
                 /\ Len(a.data) = a.length
                 /\ a.data[1][1] * 256 + a.data[1][2] = Len(Sbp2Pairs)
                 /\ \A i \in 1 .. Len(Sbp2Pairs) :
                        <<CSR_KEY(a.data[i + 1]), CSR_VALUE(a.data[i + 1])>> = Sbp2Pairs[i]
                 /\ bus[lastOp.bus].unit_dir = <<>>
        ELSE /\ bus[lastOp.bus].unit_dir = Sbp2Pairs
             /\ bus[lastOp.bus].add_desc.length = 0

(* SBP-2 has just been enabled through IOKit *)
C35_Witness ==
    EnabledNow /\ backend = "iokit" /\ Len(bus[lastOp.bus].unit_dir) > 0

(* SBP-2 has just been enabled on Linux *)
C35_WitnessLinux ==
    EnabledNow /\ backend = "juju" /\ bus[lastOp.bus].add_desc.length > 0

----------------------------------------------------------------------------
(* C36: every device-node descriptor the Linux backend opens while it      *)
(* scans, in the search for the local node of enable-SBP-2 and in          *)
(* enumeration, is closed again before the call returns, a failed get-info *)
(* exchange included; the one descriptor that stays open is the one a      *)
(* successful enable saved as the bus's SBP-2 handle.                      *)
C36_ScanDescriptorsClosed ==
    backend = "juju" =>
        \A b \in Buses :
            bus[b].scan_fds = IF bus[b].sbp2_handle THEN 1 ELSE 0

(* The same without the calls of enable-SBP-2 that met a node whose        *)
(* get-info exchange failed: no call other than those leaves a descriptor  *)
(* open                                                                    *)
C36_EnumerationClosesAll ==
    (backend = "juju" /\ lastOp.op = "get_devices") =>
        bus[lastOp.bus].scan_fds = lastOp.oldfds

----------------------------------------------------------------------------
(* C37: for the vendor key 0x03 and the model key 0x17 a name is decoded   *)
(* only when the root-directory entry right after the first entry with     *)
(* that key has key 0x81; the leaf is then read at diroff + i + value,     *)
(* with i the index of that following entry and value its value; the name  *)
(* is left empty when the two quadlets after the leaf's header are not     *)
(* both zero; otherwise at most max_bytes - 1 bytes are copied from the    *)
(* quadlets that follow, most significant byte first; and the buffer is    *)
(* always terminated by a NUL.                                             *)
RootDir == get_length(csr, 0)

RootLen == get_length(csr, RootDir)

KeyParsed == csr.pc = "parsed" /\ RootDir >= 5

NameField(key) == IF key = CSR_VENDOR_KEY THEN "vendor_name" ELSE "product_name"

Matching(key) == {i \in 1 .. RootLen - 1 : csr.rom[RootDir + i][1] = key}

FirstMatching(key) == CHOOSE i \in Matching(key) : \A j \in Matching(key) : i <= j

HasLeafPointer(key) ==
    /\ Matching(key) # {}
    /\ FirstMatching(key) + 1 < RootLen
    /\ csr.rom[RootDir + FirstMatching(key) + 1][1] = 129

LeafOffset(key) ==
    LET q == csr.rom[RootDir + FirstMatching(key) + 1]
    IN  RootDir + FirstMatching(key) + 1 + (q[2] * 65536 + q[3] * 256 + q[4])

QuadletAt(k) == IF k < FORENSIC1394_CSR_SZ THEN csr.rom[k] ELSE csr.beyond

LeafIsText(key) ==
    /\ QuadletAt(LeafOffset(key) + 1) = ZeroQuad
    /\ QuadletAt(LeafOffset(key) + 2) = ZeroQuad

TextOf(key, n) ==
    [b \in 1 .. FORENSIC1394_DEV_NAME_SZ |->
        IF b <= n THEN QuadletAt(LeafOffset(key) + 3 + ((b - 1) \div 4))[((b - 1) % 4) + 1]
                  ELSE 0]

C37_NamesFromTextLeaves ==
    KeyParsed =>
        \A key \in {CSR_VENDOR_KEY, CSR_MODEL_KEY} :
            IF HasLeafPointer(key)
            THEN /\ csr.dev[NameField(key)][FORENSIC1394_DEV_NAME_SZ] = 0
                 /\ IF LeafIsText(key)
                    THEN \E n \in 0 .. FORENSIC1394_DEV_NAME_SZ - 1 :
                             csr.dev[NameField(key)] = TextOf(key, n)
                    ELSE csr.dev[NameField(key)] = ZeroName(FORENSIC1394_DEV_NAME_SZ)
            ELSE csr.dev[NameField(key)] = csr.was[NameField(key)]

(* A vendor name of four bytes has been decoded over a buffer that held    *)
(* other bytes                                                             *)
C37_Witness ==
    /\ KeyParsed
    /\ HasLeafPointer(CSR_VENDOR_KEY) /\ LeafIsText(CSR_VENDOR_KEY)
    /\ csr.was.vendor_name[1] # 0
    /\ csr.dev.vendor_name = TextOf(CSR_VENDOR_KEY, 4)
    /\ csr.dev.vendor_name[1] = 65 /\ csr.dev.vendor_name[4] = 68

(* The entry after the vendor entry is the model entry, whose own          *)
(* successor points to a text leaf: only the model's name is decoded       *)
C37_WitnessModel ==
    /\ KeyParsed
    /\ Matching(CSR_VENDOR_KEY) # {} /\ ~HasLeafPointer(CSR_VENDOR_KEY)
    /\ csr.dev.vendor_name[1] # 0
    /\ HasLeafPointer(CSR_MODEL_KEY) /\ LeafIsText(CSR_MODEL_KEY)
    /\ csr.dev.product_name = TextOf(CSR_MODEL_KEY, 8)

(* The leaf the pointer leads to is no text leaf: the name that held       *)
(* other bytes is now empty                                                *)
C37_WitnessNotText ==
    /\ KeyParsed
    /\ HasLeafPointer(CSR_VENDOR_KEY) /\ ~LeafIsText(CSR_VENDOR_KEY)
    /\ LeafOffset(CSR_VENDOR_KEY) < 250
    /\ csr.was.vendor_name[1] # 0
    /\ IsEmptyName(csr.dev.vendor_name)

====
